---------------------------- MODULE Spec2Model ----------------------------
(***************************************************************************)
(* Climate dashboard: the transport helper (utils.py), the per-source      *)
(* fetchers (data_fetchers.py, duplicated in build.py), the renderer       *)
(* (html_builder.py) and the orchestrator main() (build.py), as one state  *)
(* machine.                                                                *)
(*                                                                         *)
(* A run starts at one entry point (try_urls, one fetcher, main, or a      *)
(* function called with arguments of its own), as                          *)
(* the unit tests and the command line do.  Every HTTP request and every   *)
(* chart write is an interaction with the environment; its outcome is a    *)
(* nondeterministic choice.  Python values whose type varies at run time   *)
(* (a year that is an int or the string "N/A") are tagged tuples.          *)
(***************************************************************************)
EXTENDS Integers, Sequences, FiniteSets, TLC

VARIABLES
    entry,        \* the function the run calls: "try_urls", a fetcher, "main"
    side_effect,  \* names patched by the test harness with side_effect=Exception
    tu,           \* frame of try_urls
    fx,           \* frame of the running fetcher
    mn,           \* frame of main
    requests,     \* every requests.get issued so far, in order
    dist,         \* files of the output directory OUT
    calls,        \* how many times each function has been called
    call,         \* frame of a function a test calls on its own
    page          \* the dashboard as a browser holds it: the script's variables and the DOM

vars == <<entry, side_effect, tu, fx, mn, requests, dist, calls, call, page>>

-----------------------------------------------------------------------------
(* Bounds *)

\* longest URL list handed to try_urls by the harness
MaxUrls == 3
\* lines before the header of a sea-ice file
MaxPreamble == 2

-----------------------------------------------------------------------------
(* Python values *)

None == [type |-> "NoneType"]
PyInt(n) == <<"int", n>>
PyFloat(n) == <<"float", n>>
PyStr(s) == <<"str", s>>
NaN == <<"nan">>
NA == PyStr("N/A")

\* a raised exception object
Exc(type, msg) == [type |-> type, msg |-> msg]

\* s[lo..hi] for a sequence, empty when lo > hi
Slice(s, lo, hi) == IF hi >= lo THEN SubSeq(s, lo, hi) ELSE <<>>

\* the last n elements of s (DataFrame.tail)
Tail_n(s, n) == IF Len(s) <= n THEN s ELSE Slice(s, Len(s) - n + 1, Len(s))

\* all sequences over S of length at most n
SeqsUpTo(S, n) == UNION {[1..k -> S] : k \in 0..n}

-----------------------------------------------------------------------------
(* URLs *)

CO2_URL == "https://gml.noaa.gov/webdata/ccgg/trends/co2/co2_mm_mlo.csv"
WARNINGS_URL == "https://www.met.ie/Open_Data/json/warning_IRELAND.json"
FIRES_URL == "https://firms.modaps.eosdis.nasa.gov/api/country/csv/3b46de7c8b5a4154a05a87c549d73836/VIIRS_SNPP_NRT/world/1"

NsidcCandidates ==
    << "https://noaadata.apps.nsidc.org/NOAA/G02135/north/daily/data/N_seaice_extent_daily_v3.0.csv",
       "https://noaadata.apps.nsidc.org/NOAA/G02135/north/daily/data/N_seaice_extent_daily_v3.0.csv.gz",
       "https://sidads.colorado.edu/DATASETS/NOAA/G02135/north/daily/data/N_seaice_extent_daily_v3.0.csv",
       "https://sidads.colorado.edu/DATASETS/NOAA/G02135/north/daily/data/N_seaice_extent_daily_v3.0.csv.gz" >>

OhcCandidates ==
    << "https://www.ncei.noaa.gov/data/ocean-heat-content/anomaly/ohc_levitus_climdash/ohc_0-2000m_annual.csv",
       "https://www.ncei.noaa.gov/data/ocean-heat-content/anomaly/ohc_levitus_climdash/ohc_0-2000m_annual_mean.csv",
       "https://www.ncei.noaa.gov/access/global-ocean-heat-content/ohc_0-2000m.csv" >>

\* url.endswith(".gz")
EndsWithGz(url) == url \in {NsidcCandidates[2], NsidcCandidates[4]}

\* the URLs the unit tests of try_urls use
TestUrls == {"https://example1.com", "https://example2.com"}

-----------------------------------------------------------------------------
(* Response bodies.  A body is a document, served raw or gzip-compressed.  *)
(* A CSV document is a sequence of lines; a line is blank, a "#" comment,  *)
(* free text, or comma-separated cells.  A cell is Num(n), Txt(s) or NaN   *)
(* (an empty cell).  Measurements are held in hundredths (425.48 ppm is    *)
(* Num(42548)); years, months and days are whole numbers.                  *)

Num(n) == <<"num", n>>
Txt(s) == <<"txt", s>>
IsNum(c) == c[1] = "num"
IsTxt(c) == c[1] = "txt"

Blank == [kind |-> "blank"]
Comment == [kind |-> "comment"]
Cells(cs) == [kind |-> "cells", cells |-> cs]

Csv(lines) == [kind |-> "csv", lines |-> lines]
Json(data) == [kind |-> "json", data |-> data]
Html == [kind |-> "html"]

Raw(doc) == [gzip |-> FALSE, doc |-> doc]
Gz(doc) == [gzip |-> TRUE, doc |-> doc]

\* requests.Response: .content is the bytes served, .text their decoding
\* (the text of a gzip stream is unreadable free text)
Response(body) ==
    [content |-> <<"bytes", body>>,
     text |-> <<"str", IF body.gzip THEN Html ELSE body.doc>>]

Text(s) == [kind |-> "text", s |-> s]
Hash == Text(<<"#", " ", "c">>)

\* str.splitlines() of a text: a JSON or HTML page is one line of free text
SplitLines(text) ==
    LET doc == text[2]
    IN CASE doc.kind = "csv" -> doc.lines
         [] doc.kind = "json" -> <<Text(<<"{">>)>>
         [] OTHER -> <<Text(<<"<">>)>>

\* DataFrame.sort_values on pairs <<key, row>>: ascending by key, rows with
\* equal keys keep their order
SortPairs(s) == SortSeq(s, LAMBDA a, b : a[1] < b[1])

\* next(k for k, b in enumerate(bools) if b), 0 when there is none
FirstTrue(bools) ==
    IF \E k \in 1..Len(bools) : bools[k]
    THEN CHOOSE k \in 1..Len(bools) : bools[k] /\ \A j \in 1..(k - 1) : ~bools[j]
    ELSE 0

-----------------------------------------------------------------------------
(* Text.  A string the code inspects (a column name, the start of a line)  *)
(* is a sequence of one-character strings, so that lower(), startswith()   *)
(* and "in" are computed and not assumed.                                  *)

\* str.lower() of one character
Lower(ch) ==
    CASE ch = "A" -> "a" []
    ch = "B" -> "b" []
    ch = "C" -> "c" []
    ch = "D" -> "d" []
    ch = "E" -> "e" []
    ch = "F" -> "f" []
    ch = "G" -> "g" []
    ch = "H" -> "h" []
    ch = "I" -> "i" []
    ch = "J" -> "j" []
    ch = "K" -> "k" []
    ch = "L" -> "l" []
    ch = "M" -> "m" []
    ch = "N" -> "n" []
    ch = "O" -> "o" []
    ch = "P" -> "p" []
    ch = "Q" -> "q" []
    ch = "R" -> "r" []
    ch = "S" -> "s" []
    ch = "T" -> "t" []
    ch = "U" -> "u" []
    ch = "V" -> "v" []
    ch = "W" -> "w" []
    ch = "X" -> "x" []
    ch = "Y" -> "y" []
    ch = "Z" -> "z" []
    OTHER -> ch

\* s.lower()
LowerStr(s) == [k \in 1..Len(s) |-> Lower(s[k])]

\* s.startswith(p)
StartsWith(s, p) == Len(s) >= Len(p) /\ Slice(s, 1, Len(p)) = p

\* p in s
Contains(s, p) == \E k \in 1..(Len(s) - Len(p) + 1) : Slice(s, k, k + Len(p) - 1) = p

\* s.strip(): leading and trailing blanks removed
RECURSIVE LStrip(_)
LStrip(s) == IF s # <<>> /\ Head(s) = " " THEN LStrip(Tail(s)) ELSE s

\* the text of a cell as read_csv names a column by it, or as a line starts
\* with it: a number's text is a sign or a digit followed by the rest of the
\* number (held whole), an empty cell is followed at once by the comma
CellText(c) ==
    IF IsTxt(c) THEN c[2]
    ELSE IF IsNum(c) THEN <<(IF c[2] < 0 THEN "-" ELSE "0"), ToString(c[2])>>
    ELSE <<",">>

\* the characters a line starts with
LineText(ln) ==
    CASE ln.kind = "cells" -> (IF ln.cells = <<>> THEN <<>> ELSE CellText(ln.cells[1]))
      [] ln.kind = "text" -> ln.s
      [] OTHER -> <<>>

\* bool(ln.strip())
NonBlank(ln) == ln.kind # "blank"

-----------------------------------------------------------------------------
(* Numbers: Num(n) is the decimal n/100.                                   *)

Whole(k) == Num(k * 100)

\* int(x) of a cell: None when Python raises (NaN, a non-numeric string)
IntOf(c) == IF IsNum(c) THEN (IF c[2] >= 0 THEN c[2] \div 100 ELSE -((-c[2]) \div 100)) ELSE 0
CanInt(c) == IsNum(c)

\* np.nan test of a cell
IsNaN(c) == c = NaN

\* the value -99.99 that marks a missing CO2 average, in hundredths
CO2_MISSING == -9999
\* the value -9999 that marks a missing sea-ice extent
NSIDC_MISSING == -9999

\* nothing is replaced
ReplaceNaN_kept(cells, v) == cells

\* DataFrame.replace(v, np.nan) on one row of cells
ReplaceNaN(cells, v) == [k \in 1..Len(cells) |-> IF cells[k] = v THEN NaN ELSE cells[k]]

\* whether (y, m, d) is a calendar date pd.to_datetime accepts
IsLeap(y) == y % 4 = 0 /\ (y % 100 # 0 \/ y % 400 = 0)
DaysIn(y, m) ==
    IF m \in {4, 6, 9, 11} THEN 30
    ELSE IF m = 2 THEN (IF IsLeap(y) THEN 29 ELSE 28)
    ELSE 31
ValidDate(y, m, d) == y \in 1678..2261 /\ m \in 1..12 /\ d \in 1..DaysIn(y, m)

\* a date as an ordering key
DateKey(dt) == dt[1] * 10000 + dt[2] * 100 + dt[3]

\* str(date): "YYYY-MM-DD"
DateStr(dt) == <<"str", dt[1], dt[2], dt[3]>>

-----------------------------------------------------------------------------
(* pandas.read_csv on the lines the code joins.  Domain: a data line has   *)
(* at most as many cells as the header; header cells are distinct and not  *)
(* empty.  A line of free text is one cell.                                *)

NaT == <<"NaT">>

LineCells(ln) == IF ln.kind = "cells" THEN ln.cells ELSE <<Txt(ln.s)>>

\* cells padded with NaN to n columns
Pad(cells, n) == [k \in 1..n |-> IF k <= Len(cells) THEN cells[k] ELSE NaN]

\* pd.read_csv(io.StringIO("\n".join(lines))), header in the first line
ReadCsv(lines) ==
    IF lines = <<>> THEN [exc |-> Exc("EmptyDataError", "No columns to parse from file")]
    ELSE LET head == LineCells(lines[1])
             columns == [k \in 1..Len(head) |-> CellText(head[k])]
             data == Slice(lines, 2, Len(lines))
         IN IF \E k \in 1..Len(data) : Len(LineCells(data[k])) > Len(columns)
            THEN [exc |-> Exc("ParserError", "Error tokenizing data")]
            ELSE [exc |-> None,
                  columns |-> columns,
                  rows |-> [k \in 1..Len(data) |-> Pad(LineCells(data[k]), Len(columns))]]

\* next((k for k, c in enumerate(columns) if c.lower().startswith(p)), None)
ColStartingWith(columns, p) ==
    FirstTrue([k \in 1..Len(columns) |-> StartsWith(LowerStr(columns[k]), p)])

\* the last column whatever its name
ColContaining_last(columns, p) == Len(columns)

\* next((k for k, c in enumerate(columns) if p in c.lower()), None)
ColContaining(columns, p) ==
    FirstTrue([k \in 1..Len(columns) |-> Contains(LowerStr(columns[k]), p)])

-----------------------------------------------------------------------------
(* Sea ice: _parse_nsidc_daily_csv and the body of one candidate's try.    *)

\* ln.lower().startswith("year") or ln.lower().startswith("yyyy")
IsNsidcHeader(ln) ==
    \/ StartsWith(LowerStr(LineText(ln)), <<"y", "e", "a", "r">>)
    \/ StartsWith(LowerStr(LineText(ln)), <<"y", "y", "y", "y">>)

\* the header is taken to be the first line
NsidcStartIdx_first(lines) == 1

\* the header row: the first matching line, the first line when none matches
NsidcStartIdx(lines) ==
    LET hit == FirstTrue([k \in 1..Len(lines) |-> IsNsidcHeader(lines[k])])
    IN IF hit = 0 THEN 1 ELSE hit

\* the date of one row, NaT where pd.to_datetime(errors="coerce") gives up
NsidcRowDate(cells, ycol, mcol, dcol) ==
    LET y == IntOf(cells[ycol])
        m == IntOf(cells[mcol])
        d == IntOf(cells[dcol])
    IN IF ValidDate(y, m, d) THEN <<y, m, d>> ELSE NaT

\* lines 166-171: each row with its date
NsidcDated(rows, ycol, mcol, dcol) ==
    [k \in 1..Len(rows) |->
       [cells |-> rows[k], date |-> NsidcRowDate(rows[k], ycol, mcol, dcol)]]

\* the rows stay in the order of the file
NsidcSortReplace_unsorted(kept) ==
    [k \in 1..Len(kept) |->
       [cells |-> ReplaceNaN(kept[k].cells, Whole(NSIDC_MISSING)), date |-> kept[k].date]]

\* lines 172-173 on the dated rows: sort_values("date"), replace(-9999, nan)
NsidcSortReplace(kept) ==
    LET sorted == SortPairs([k \in 1..Len(kept) |-> <<DateKey(kept[k].date), kept[k]>>])
    IN [k \in 1..Len(sorted) |->
          [cells |-> ReplaceNaN(sorted[k][2].cells, Whole(NSIDC_MISSING)),
           date |-> sorted[k][2].date]]

\* lines 162-175 once the four columns are looked up (0: not found)
NsidcWithColumns(rows, ycol, mcol, dcol, ecol) ==
    IF 0 \in {ycol, mcol, dcol, ecol}
    THEN [exc |-> Exc("ValueError", "Unexpected NSIDC CSV columns")]
    ELSE IF \E k \in 1..Len(rows) : \E c \in {ycol, mcol, dcol} : ~CanInt(rows[k][c])
    THEN [exc |-> Exc("ValueError", "cannot convert to int")]
    ELSE [exc |-> None,
          df |-> NsidcSortReplace(SelectSeq(NsidcDated(rows, ycol, mcol, dcol),
                                            LAMBDA r : r.date # NaT)),
          ecol |-> ecol]

\* lines 156-175 on the table read_csv returned
NsidcFromCsv(csv) ==
    IF csv.exc # None THEN [exc |-> csv.exc]
    ELSE NsidcWithColumns(csv.rows,
                          ColStartingWith(csv.columns, <<"y">>),
                          ColStartingWith(csv.columns, <<"m">>),
                          ColStartingWith(csv.columns, <<"d">>),
                          ColContaining(csv.columns, <<"e", "x", "t", "e", "n", "t">>))

\* lines 153-154 on the non-blank lines
NsidcFromLines(lines) ==
    NsidcFromCsv(ReadCsv(Slice(lines, NsidcStartIdx(lines), Len(lines))))

_parse_nsidc_daily_csv(text) == NsidcFromLines(SelectSeq(SplitLines(text), NonBlank))

\* days of the sea-ice chart
NSIDC_TAIL == 365

\* gzip.decompress(content).decode("utf-8", "replace")
GzipDecompress(content) ==
    IF content[1] # "bytes"
    THEN [exc |-> Exc("TypeError", "a bytes-like object is required, not 'str'")]
    ELSE IF content[2].gzip THEN [exc |-> None, text |-> <<"str", content[2].doc>>]
    ELSE [exc |-> Exc("BadGzipFile", "Not a gzipped file")]

\* lines 201-206 on the rows that have an extent
NsidcLatest(valid, ecol) ==
    IF valid = <<>>
    THEN [exc |-> Exc("IndexError", "single positional indexer is out-of-bounds")]
    ELSE IF ~IsNum(valid[Len(valid)].cells[ecol])
    THEN [exc |-> Exc("ValueError", "could not convert string to float")]
    ELSE [exc |-> None,
          latest_val |-> PyFloat(valid[Len(valid)].cells[ecol][2]),
          latest_date |-> DateStr(valid[Len(valid)].date),
          tail |-> Tail_n([k \in 1..Len(valid) |-> <<valid[k].date, valid[k].cells[ecol]>>],
                          NSIDC_TAIL)]

\* lines 200-206 on what _parse_nsidc_daily_csv returned
NsidcFromParsed(p) ==
    IF p.exc # None THEN [exc |-> p.exc]
    ELSE NsidcLatest(SelectSeq(p.df, LAMBDA r : ~IsNaN(r.cells[p.ecol])), p.ecol)

\* lines 200-206 on the text of the candidate
NsidcFromText(unz) ==
    IF unz.exc # None THEN [exc |-> unz.exc]
    ELSE NsidcFromParsed(_parse_nsidc_daily_csv(unz.text))

\* lines 194-206 of one candidate: from the downloaded payload to the
\* latest row and the rows of the chart, before the chart is saved
NsidcProcess(url, payload) ==
    NsidcFromText(IF EndsWithGz(url) THEN GzipDecompress(payload)
                  ELSE [exc |-> None, text |-> payload])

NSIDC_SOURCE == "https://nsidc.org/sea-ice-today"
NSIDC_CHART == "arctic_extent_365d.png"

\* the record of a candidate that completed (lines 219-223)
NsidcRecord(latest_date, latest_val) ==
    [latest |-> [date |-> latest_date, extent_mkm2 |-> latest_val],
     chart |-> NSIDC_CHART,
     source |-> NSIDC_SOURCE]

\* the record after every candidate failed (lines 227-231)
NsidcPlaceholder ==
    [latest |-> [date |-> NA, extent_mkm2 |-> NaN],
     chart |-> "",
     source |-> NSIDC_SOURCE]

-----------------------------------------------------------------------------
(* CO2: the body of fetch_noaa_co2_monthly after the download.             *)

\* pd.read_csv(..., header=None): every line is a row, the first line
\* fixes the number of columns
ReadCsvNoHeader(lines) ==
    IF lines = <<>> THEN [exc |-> Exc("EmptyDataError", "No columns to parse from file")]
    ELSE LET n == Len(LineCells(lines[1]))
         IN IF \E k \in 1..Len(lines) : Len(LineCells(lines[k])) > n
            THEN [exc |-> Exc("ParserError", "Error tokenizing data")]
            ELSE [exc |-> None,
                  ncols |-> n,
                  rows |-> [k \in 1..Len(lines) |-> Pad(LineCells(lines[k]), n)]]

\* positions of the columns "year", "month", "average" in cols (line 56)
CO2_YEAR == 1
CO2_MONTH == 2
CO2_AVERAGE == 4
\* len(cols)
CO2_NCOLS == 8
\* months of the CO2 chart
CO2_TAIL == 24

CO2_SOURCE == "https://gml.noaa.gov/ccgg/trends/"
CO2_CHART == "co2_24mo.png"

\* ln.strip() and not ln.startswith("#")
Co2KeepLine(ln) == NonBlank(ln) /\ ~StartsWith(LineText(ln), <<"#">>)

\* lines 52-83: from the response text to the latest row and the chart rows
Co2Process(text) ==
    LET lines == SelectSeq(SplitLines(text), Co2KeepLine)
        csv == ReadCsvNoHeader(lines)
    IN IF csv.exc # None THEN [exc |-> csv.exc]
       ELSE IF csv.ncols < CO2_NCOLS
       THEN [exc |-> Exc("ValueError", "Length mismatch")]
       ELSE
       LET replaced == [k \in 1..Len(csv.rows) |-> ReplaceNaN(csv.rows[k], Num(CO2_MISSING))]
           df == SelectSeq(replaced, LAMBDA r : ~IsNaN(r[CO2_AVERAGE]))
       IN IF df = <<>>
          THEN [exc |-> Exc("IndexError", "single positional indexer is out-of-bounds")]
          ELSE
          LET latest == df[Len(df)]
              tail == Tail_n(df, CO2_TAIL)
          IN IF ~IsNum(latest[CO2_AVERAGE])
             THEN [exc |-> Exc("ValueError", "could not convert string to float")]
             ELSE IF ~CanInt(latest[CO2_YEAR]) \/ ~CanInt(latest[CO2_MONTH])
             THEN [exc |-> Exc("ValueError", "cannot convert to int")]
             ELSE IF \E k \in 1..Len(tail) :
                       ~CanInt(tail[k][CO2_YEAR]) \/ ~CanInt(tail[k][CO2_MONTH])
             THEN [exc |-> Exc("ValueError", "cannot convert to int")]
             ELSE [exc |-> None,
                   latest_ppm |-> PyFloat(latest[CO2_AVERAGE][2]),
                   latest_year |-> PyInt(IntOf(latest[CO2_YEAR])),
                   latest_month |-> PyInt(IntOf(latest[CO2_MONTH])),
                   tail |-> [k \in 1..Len(tail) |->
                               <<IntOf(tail[k][CO2_YEAR]), IntOf(tail[k][CO2_MONTH]),
                                 tail[k][CO2_AVERAGE]>>]]

\* the record returned on success (lines 86-92)
Co2Record(latest_year, latest_month, latest_ppm) ==
    [year |-> latest_year, month |-> latest_month, ppm |-> latest_ppm,
     chart |-> CO2_CHART, source |-> CO2_SOURCE]

-----------------------------------------------------------------------------
(* Ocean heat: the body of one candidate's try in                          *)
(* fetch_noaa_ncei_ohc_latest.  Domain: a text cell is not a number.       *)

OHC_SOURCE == "https://www.ncei.noaa.gov/access/global-ocean-heat-content/"
OHC_UNITS == "J x 10^22"

\* ln.strip() and not ln.strip().startswith("#")
OhcKeepLine(ln) == NonBlank(ln) /\ ~StartsWith(LStrip(LineText(ln)), <<"#">>)

\* pd.api.types.is_numeric_dtype(df[c]): a column of numbers and empty
\* cells; a column without rows has dtype object
IsNumericCol(rows, c) == rows # <<>> /\ \A k \in 1..Len(rows) : ~IsTxt(rows[k][c])

\* the rows stay in the order of the file
OhcSort_unsorted(rows, year_col) == rows

\* sort_values(year_col): ascending, rows with a missing year last
OhcSort(rows, year_col) ==
    LET known == SelectSeq(rows, LAMBDA r : IsNum(r[year_col]))
        missing == SelectSeq(rows, LAMBDA r : ~IsNum(r[year_col]))
        sorted == SortPairs([k \in 1..Len(known) |-> <<known[k][year_col][2], known[k]>>])
    IN [k \in 1..Len(sorted) |-> sorted[k][2]] \o missing

\* lines 291-293: the last row of the sorted frame; int() of a missing
\* year raises
OhcFromSorted(df, year_col, num_cols) ==
    IF ~CanInt(df[Len(df)][year_col])
    THEN [exc |-> Exc("ValueError", "cannot convert float NaN to integer"), skip |-> FALSE]
    ELSE [exc |-> None, skip |-> FALSE,
          latest_year |-> PyInt(IntOf(df[Len(df)][year_col])),
          latest_val |-> PyFloat(df[Len(df)][num_cols[1]][2])]

\* line 290: the rows kept by dropna are sorted by year; a year column of
\* text cannot be compared, and no row at all has no last one
OhcFromKept(kept, year_col, num_cols) ==
    IF \E k \in 1..Len(kept) : IsTxt(kept[k][year_col])
    THEN [exc |-> Exc("TypeError", "year column is not numeric"), skip |-> FALSE]
    ELSE IF kept = <<>>
    THEN [exc |-> Exc("IndexError", "single positional indexer is out-of-bounds"),
          skip |-> FALSE]
    ELSE OhcFromSorted(OhcSort(kept, year_col), year_col, num_cols)

\* lines 287-290: without a numeric column the candidate is skipped;
\* dropna(subset=num_cols) keeps the rows that have every one of them
OhcFromNumCols(csv, year_col, num_cols) ==
    IF num_cols = <<>> THEN [exc |-> None, skip |-> TRUE]
    ELSE OhcFromKept(SelectSeq(csv.rows,
                               LAMBDA r : \A j \in 1..Len(num_cols) : ~IsNaN(r[num_cols[j]])),
                     year_col, num_cols)

\* line 286: the numeric columns other than the year's
OhcFromYearCol(csv, year_col) ==
    OhcFromNumCols(csv, year_col,
                   SelectSeq([k \in 1..Len(csv.columns) |-> k],
                             LAMBDA c : csv.columns[c] # csv.columns[year_col]
                                        /\ IsNumericCol(csv.rows, c)))

\* line 285: the first column whose name starts with "year", or the first
OhcFromByName(csv, byname) == OhcFromYearCol(csv, IF byname = 0 THEN 1 ELSE byname)

\* line 284 on, once read_csv has read the lines
OhcFromCsv(csv) ==
    IF csv.exc # None THEN [exc |-> csv.exc, skip |-> FALSE]
    ELSE OhcFromByName(csv, ColStartingWith(csv.columns, <<"y", "e", "a", "r">>))

\* lines 282-293; skip is the "continue" of line 288
OhcProcess(text) == OhcFromCsv(ReadCsv(SelectSeq(SplitLines(text), OhcKeepLine)))

\* the record of a candidate that yields a row (lines 295-300)
OhcRecord(latest_year, latest_val) ==
    [year |-> latest_year, value |-> latest_val, units |-> OHC_UNITS, source |-> OHC_SOURCE]

\* the record after every candidate failed (lines 304-309)
OhcPlaceholder ==
    [year |-> NA, value |-> NA, units |-> "", source |-> OHC_SOURCE]

-----------------------------------------------------------------------------
(* Warnings: the try body of fetch_met_eireann_warnings.  JSON values are  *)
(* tagged: null, a string, a number, a list, a dict; Absent is a key a     *)
(* dict does not have.                                                     *)

JNull == <<"null">>
Absent == <<"absent">>
JStr(chars) == <<"jstr", chars>>
JNum(n) == <<"jnum", n>>
JList(items) == <<"list", items>>
\* the top-level object {"warnings": w}, or {} when w is Absent
JData(w) == <<"dict", w>>
\* one warning {"status": st, "title": ti}
JItem(st, ti) == <<"dict", [status |-> st, title |-> ti]>>

\* bool(v) of a JSON value
Truthy(v) ==
    CASE v[1] = "jstr" -> v[2] # <<>>
      [] v[1] = "jnum" -> v[2] # 0
      [] v[1] = "list" -> v[2] # <<>>
      [] v[1] = "dict" -> TRUE
      [] OTHER -> FALSE

WARNINGS_SOURCE == "https://www.met.ie/warnings"
\* titles[:3]
WARNINGS_TITLES == 3

ACTIVE == <<"a", "c", "t", "i", "v", "e">>

\* the status compared as it is spelled
IsActive_exact(w) ==
    LET st == w[2].status
    IN Truthy(st) /\ st[1] = "jstr" /\ st[2] = ACTIVE

\* (w.get("status", "") or "").lower() == "active"; the item is a dict
\* whose status is a string or falsy
IsActive(w) ==
    LET st == w[2].status
    IN Truthy(st) /\ st[1] = "jstr" /\ LowerStr(st[2]) = ACTIVE

\* whether evaluating the filter on w raises AttributeError
StatusRaises(w) ==
    \/ w[1] # "dict"
    \/ (Truthy(w[2].status) /\ w[2].status[1] # "jstr")

\* lines 104-112
WarningsProcess(text) ==
    LET doc == text[2]
    IN IF doc.kind # "json" THEN [exc |-> Exc("JSONDecodeError", "Expecting value")]
       ELSE IF doc.data[1] # "dict"
       THEN [exc |-> Exc("AttributeError", "object has no attribute 'get'")]
       ELSE
       LET w == doc.data[2]
       IN IF Truthy(w) /\ w[1] # "list"
          THEN [exc |-> Exc("AttributeError", "object has no attribute 'get'")]
          ELSE
          LET items == IF Truthy(w) THEN w[2] ELSE <<>>
          IN IF \E k \in 1..Len(items) : StatusRaises(items[k])
             THEN [exc |-> Exc("AttributeError", "object has no attribute 'lower'")]
             ELSE
             LET active == SelectSeq(items, IsActive)
                 titled == SelectSeq(active, LAMBDA a : Truthy(a[2].title))
                 titles == [k \in 1..Len(titled) |-> titled[k][2].title]
             IN [exc |-> None,
                 count |-> PyInt(Len(active)),
                 titles |-> Slice(titles, 1, IF Len(titles) < WARNINGS_TITLES
                                               THEN Len(titles) ELSE WARNINGS_TITLES)]

WarningsRecord(count, titles) ==
    [count |-> count, titles |-> titles, source |-> WARNINGS_SOURCE]

\* the record of the except branch (lines 114-118)
WarningsPlaceholder ==
    [count |-> NA, titles |-> <<>>, source |-> WARNINGS_SOURCE]

-----------------------------------------------------------------------------
(* Fires: the try body of fetch_forest_fires_data.                         *)

FIRES_SOURCE == "https://firms.modaps.eosdis.nasa.gov/"

\* text.strip(): the blank lines at both ends go
RECURSIVE DropLeadingBlank(_)
DropLeadingBlank(lines) ==
    IF lines # <<>> /\ ~NonBlank(Head(lines)) THEN DropLeadingBlank(Tail(lines)) ELSE lines

RECURSIVE DropTrailingBlank(_)
DropTrailingBlank(lines) ==
    IF lines # <<>> /\ ~NonBlank(lines[Len(lines)])
    THEN DropTrailingBlank(Slice(lines, 1, Len(lines) - 1))
    ELSE lines

\* len(r.text.strip().split("\n")): splitting the empty string gives [""]
FiresLineCount(text) ==
    LET lines == DropTrailingBlank(DropLeadingBlank(SplitLines(text)))
    IN IF lines = <<>> THEN 1 ELSE Len(lines)

\* the blank lines inside the body are not counted
FireCount_nonblank(text) ==
    LET n == Len(SelectSeq(SplitLines(text), NonBlank)) IN IF n > 1 THEN n - 1 ELSE 0

\* lines 247-251
FireCount(text) ==
    LET n == FiresLineCount(text) IN IF n > 1 THEN n - 1 ELSE 0

FiresRecord(fire_count) ==
    [count |-> PyInt(fire_count), source |-> FIRES_SOURCE,
     description |-> "Active fires detected by VIIRS satellite in last 24 hours"]

\* the record of the except branch (lines 259-263)
FiresPlaceholder ==
    [count |-> NA, source |-> FIRES_SOURCE,
     description |-> "Fire data temporarily unavailable"]

-----------------------------------------------------------------------------
(* Tide gauge: fetch_psmsl_dublin_note.                                    *)

DublinRecord ==
    [link |-> "https://psmsl.org/data/obtaining/stations/432.php",
     note |-> "Dublin tide-gauge shows a gradual long-term rise."]

-----------------------------------------------------------------------------
(* What the servers may answer: a few documents per source, chosen so that *)
(* every step of every fetcher can succeed and can fail.                   *)

\* the words of the documents
TWord ==
    [Year |-> Txt(<<"Y", "e", "a", "r">>),
     Month |-> Txt(<<"M", "o", "n", "t", "h">>),
     Day |-> Txt(<<"D", "a", "y">>),
     Extent |-> Txt(<<"E", "x", "t", "e", "n", "t">>),
     Missing |-> Txt(<<"M", "i", "s", "s", "i", "n", "g">>),
     YYYY |-> Txt(<<"Y", "Y", "Y", "Y">>),
     MM |-> Txt(<<"M", "M">>),
     DD |-> Txt(<<"D", "D">>),
     EXTENT |-> Txt(<<"E", "X", "T", "E", "N", "T">>),
     Area |-> Txt(<<"A", "r", "e", "a">>),
     OHC |-> Txt(<<"O", "H", "C">>),
     YEAR |-> Txt(<<"Y", "E", "A", "R">>),
     Note |-> Txt(<<"N", "o", "t", "e">>),
     na |-> Txt(<<"n", "/", "a">>)]

\* a sea-ice data line: year, month, day, extent (hundredths), missing
NsidcRow(y, m, d, e) == Cells(<<Whole(y), Whole(m), Whole(d), Num(e), Whole(0)>>)

NsidcHeader == Cells(<<TWord.Year, TWord.Month, TWord.Day, TWord.Extent, TWord.Missing>>)

\* two comment lines, rows out of date order, the newest row without extent,
\* one row that is no calendar date
NsidcGood ==
    Csv(<<Hash, Blank, Hash, NsidcHeader,
          NsidcRow(2024, 11, 30, 1050),
          NsidcRow(2024, 12, 1, NSIDC_MISSING * 100),
          NsidcRow(2024, 2, 30, 900),
          NsidcRow(2023, 12, 31, 1100)>>)

\* no line before the header, upper-case names
NsidcGood2 ==
    Csv(<<Cells(<<TWord.YYYY, TWord.MM, TWord.DD, TWord.EXTENT>>),
          Cells(<<Whole(2025), Whole(1), Whole(2), Num(1234)>>)>>)

\* no column whose name contains "extent"
NsidcNoExtent ==
    Csv(<<Cells(<<TWord.Year, TWord.Month, TWord.Day, TWord.Area>>),
          Cells(<<Whole(2024), Whole(12), Whole(1), Num(1200)>>)>>)

\* every extent is the missing marker
NsidcAllMissing ==
    Csv(<<NsidcHeader, NsidcRow(2024, 12, 1, NSIDC_MISSING * 100)>>)

NsidcBodies ==
    {Raw(NsidcGood), Gz(NsidcGood), Raw(NsidcGood2), Gz(NsidcGood2),
     Raw(NsidcNoExtent), Gz(NsidcAllMissing), Raw(Csv(<<>>))}

\* a CO2 data line of eight columns; the average in hundredths of ppm
Co2Row(y, m, avg) ==
    Cells(<<Whole(y), Whole(m), Num(y * 100 + 4), Num(avg), Num(avg), Whole(30),
            Num(50), Num(10)>>)

Co2Good == Csv(<<Hash, Hash, Co2Row(2024, 11, 42400), Co2Row(2024, 12, 42548)>>)
Co2TrailingMissing ==
    Csv(<<Hash, Co2Row(2024, 11, 42400), Blank, Co2Row(2024, 12, CO2_MISSING)>>)
Co2AllMissing == Csv(<<Co2Row(2024, 12, CO2_MISSING)>>)

Co2Bodies == {Raw(Co2Good), Raw(Co2TrailingMissing), Raw(Co2AllMissing), Raw(Html)}

OhcGood ==
    Csv(<<Hash, Cells(<<TWord.Year, TWord.OHC, TWord.Note>>),
          Cells(<<Whole(2023), Num(1520), TWord.na>>),
          Cells(<<Whole(2024), NaN, TWord.na>>),
          Cells(<<Whole(2022), Num(1400), TWord.na>>)>>)
OhcGood2 ==
    Csv(<<Cells(<<TWord.YYYY, TWord.OHC>>), Cells(<<Whole(2021), Num(1300)>>)>>)
\* no numeric column besides the year
OhcNoNumeric ==
    Csv(<<Cells(<<TWord.Year, TWord.Note>>), Cells(<<Whole(2023), TWord.na>>)>>)
\* a row whose year is empty sorts last
OhcMissingYear ==
    Csv(<<Cells(<<TWord.Year, TWord.OHC>>), Cells(<<NaN, Num(1600)>>),
          Cells(<<Whole(2023), Num(1520)>>)>>)

OhcBodies ==
    {Raw(OhcGood), Raw(OhcGood2), Raw(OhcNoNumeric), Raw(OhcMissingYear), Raw(Csv(<<>>))}

\* the strings of the warnings feed
JWord ==
    [Active |-> JStr(<<"A", "c", "t", "i", "v", "e">>),
     ACTIVE |-> JStr(<<"A", "C", "T", "I", "V", "E">>),
     Expired |-> JStr(<<"E", "x", "p", "i", "r", "e", "d">>),
     Storm |-> JStr(<<"S", "t", "o", "r", "m">>),
     Rain |-> JStr(<<"R", "a", "i", "n">>),
     Wind |-> JStr(<<"W", "i", "n", "d">>),
     Snow |-> JStr(<<"S", "n", "o", "w">>)]

\* four active warnings with titles, one active without, one expired
WarningsMany ==
    Json(JData(JList(<<JItem(JWord.Active, JWord.Storm), JItem(JWord.Expired, JWord.Rain),
                       JItem(JWord.ACTIVE, JNull), JItem(JWord.Active, JWord.Rain),
                       JItem(JWord.Active, JWord.Wind), JItem(JWord.Active, JWord.Snow),
                       JItem(Absent, JWord.Snow)>>)))
WarningsNone == Json(JData(Absent))
\* a status that is a number
WarningsBadStatus == Json(JData(JList(<<JItem(JNum(1), JWord.Storm)>>)))

WarningsBodies == {Raw(WarningsMany), Raw(WarningsNone), Raw(WarningsBadStatus), Raw(Html)}

FiresThree ==
    Csv(<<Blank, Cells(<<TWord.Year, TWord.Area>>), Cells(<<Whole(2024), Num(1)>>), Blank,
          Cells(<<Whole(2024), Num(2)>>), Cells(<<Whole(2024), Num(2)>>), Blank>>)
FiresHeaderOnly == Csv(<<Cells(<<TWord.Year, TWord.Area>>)>>)

FiresBodies == {Raw(FiresThree), Raw(FiresHeaderOnly), Raw(Csv(<<>>)), Raw(Html)}

\* the bodies a URL may be answered with
Bodies(url) ==
    CASE url = CO2_URL -> Co2Bodies
      [] url = WARNINGS_URL -> WarningsBodies
      [] url = FIRES_URL -> FiresBodies
      [] url \in {NsidcCandidates[k] : k \in 1..4} -> NsidcBodies
      [] url \in {OhcCandidates[k] : k \in 1..3} -> OhcBodies
      [] OTHER -> {Raw(Html), Gz(Co2Good)}

-----------------------------------------------------------------------------
(* Transport: http_get and try_urls (utils.py).                            *)

\* default timeouts of http_get and try_urls
HTTP_TIMEOUT == 30
TRY_TIMEOUT == 45

\* what one http_get(url) can do: return a response, or raise what
\* requests.get (no connection, timeout) or raise_for_status (bad status)
\* raise; n numbers the request, so that two exceptions are two objects
http_get(url, n) ==
    {[exc |-> None, r |-> Response(b)] : b \in Bodies(url)}
    \cup {[exc |-> [type |-> t, msg |-> url, req |-> n]] :
             t \in {"ConnectionError", "HTTPError"}}

\* the entry a request leaves in the log
Request(url, timeout) == [url |-> url, timeout |-> timeout]

\* the text, whatever binary is
TryUrlsContent_text(r, binary) == r.text

\* r.content if binary else r.text (line 58)
TryUrlsContent(r, binary) == IF binary THEN r.content ELSE r.text

\* the first error is kept
TryUrlsLastErr_first(last_err, e) == IF last_err # None THEN last_err ELSE e

\* last_err = e (line 60)
TryUrlsLastErr(last_err, e) == e

\* the generic error is lost
TryUrlsError_none(last_err) == last_err

\* raise last_err if last_err else RuntimeError("No URLs tried") (line 62)
TryUrlsError(last_err) ==
    IF last_err # None THEN last_err ELSE Exc("RuntimeError", "No URLs tried")

\* the frame of try_urls: its arguments, its locals, what it returned or
\* raised, and (tried) the outcome of each http_get of the call so far, the
\* exception raised or None
TuIdle ==
    [pc |-> "idle", urls |-> <<>>, timeout |-> TRY_TIMEOUT, binary |-> FALSE,
     i |-> 1, last_err |-> None, ret |-> None, tried |-> <<>>, first |-> 1]

\* the frame of a call try_urls(urls, timeout, binary) made when n requests
\* have been issued
TuCall(urls, timeout, binary, n) ==
    [pc |-> "loop", urls |-> urls, timeout |-> timeout, binary |-> binary,
     i |-> 1, last_err |-> None, ret |-> None, tried |-> <<>>, first |-> n + 1]

\* one iteration of the for loop: the request to urls[i], then the return
\* or the except branch
try_urls_get ==
    /\ tu.pc = "loop"
    /\ tu.i <= Len(tu.urls)
    /\ \E out \in http_get(tu.urls[tu.i], Len(requests) + 1) :
          /\ requests' = Append(requests, Request(tu.urls[tu.i], tu.timeout))
          /\ tu' = IF out.exc = None
                   THEN [tu EXCEPT !.pc = "returned",
                                   !.ret = <<tu.urls[tu.i], TryUrlsContent(out.r, tu.binary)>>,
                                   !.tried = Append(@, None)]
                   ELSE [tu EXCEPT !.last_err = TryUrlsLastErr(@, out.exc),
                                   !.i = @ + 1,
                                   !.tried = Append(@, out.exc)]
    /\ UNCHANGED <<page, call, entry, side_effect, fx, mn, dist, calls>>

\* the loop is over and nothing was returned
try_urls_raise ==
    /\ tu.pc = "loop"
    /\ tu.i > Len(tu.urls)
    /\ tu' = [tu EXCEPT !.pc = "raised", !.ret = TryUrlsError(tu.last_err)]
    /\ UNCHANGED <<page, call, entry, side_effect, fx, mn, requests, dist, calls>>

-----------------------------------------------------------------------------
(* The output directory.                                                   *)

INDEX_HTML == "index.html"
Files == {CO2_CHART, NSIDC_CHART, INDEX_HTML}

\* a file that is not there, or one an earlier run left
NoFile == <<"absent">>
OldFile == <<"old">>
\* a file whose writing failed part way
Truncated == <<"truncated">>

\* what a write can do: succeed, fail before the file is touched, fail
\* after it was opened for writing
DiskOutcomes == {"ok", "fail", "partial"}

\* the directory after writing data to path with that outcome
WriteFile(d, path, data, disk) ==
    CASE disk = "ok" -> [d EXCEPT ![path] = data]
      [] disk = "partial" -> [d EXCEPT ![path] = Truncated]
      [] OTHER -> d

\* every chart goes to the one file
save_png_shared(d, path, fig, disk) == WriteFile(d, CO2_CHART, <<"png", fig>>, disk)

\* save_png(fig, path): the directory afterwards
save_png(d, path, fig, disk) == WriteFile(d, path, <<"png", fig>>, disk)

-----------------------------------------------------------------------------
(* The fetchers (data_fetchers.py; build.py holds the same functions).     *)
(* A fetcher is named by the key its record gets in the page context.      *)

Fetchers == {"co2", "warnings", "dublin", "nsidc", "ohc", "fires"}

\* the frame of a fetcher: its loop index, what it returned or raised,
\* (got) whether a download of the call has succeeded so far, and (payload)
\* the text or bytes of its latest download, None when that one failed or
\* is not over
FxIdle ==
    [pc |-> "idle", name |-> "", i |-> 1, ret |-> None, got |-> FALSE, payload |-> None]
\* the frame of a call of fetcher name
FxCall(name) ==
    [pc |-> "called", name |-> name, i |-> 1, ret |-> None, got |-> FALSE, payload |-> None]

\* the text a fetcher reads from the outcome of its http_get
Payload(out) == IF out.exc = None THEN out.r.text ELSE None

OSError == Exc("OSError", "cannot write file")

\* the failure is absorbed
Co2Failed_absorbed(e, d) ==
    [pc |-> "returned",
     ret |-> [year |-> NA, month |-> PyInt(0), ppm |-> NaN, chart |-> "", source |-> CO2_SOURCE],
     dist |-> d]

\* r = http_get(url) raised e (line 51): no try around it
Co2Failed(e, d) == [pc |-> "raised", ret |-> e, dist |-> d]

\* fetch_noaa_co2_monthly from the outcome of its http_get on: nothing is
\* caught, so whatever is raised leaves the function
Co2Result(out, d, disk) ==
    IF out.exc # None THEN Co2Failed(out.exc, d)
    ELSE LET p == Co2Process(out.r.text)
         IN IF p.exc # None THEN [pc |-> "raised", ret |-> p.exc, dist |-> d]
            ELSE IF disk # "ok"
            THEN [pc |-> "raised", ret |-> OSError,
                  dist |-> save_png(d, CO2_CHART, p.tail, disk)]
            ELSE [pc |-> "returned",
                  ret |-> Co2Record(p.latest_year, p.latest_month, p.latest_ppm),
                  dist |-> save_png(d, CO2_CHART, p.tail, disk)]

fetch_noaa_co2_monthly ==
    /\ fx.pc = "called"
    /\ fx.name = "co2"
    /\ \E out \in http_get(CO2_URL, Len(requests) + 1), disk \in DiskOutcomes :
          LET res == Co2Result(out, dist, disk)
          IN /\ requests' = Append(requests, Request(CO2_URL, HTTP_TIMEOUT))
             /\ fx' = [fx EXCEPT !.pc = res.pc, !.ret = res.ret, !.got = (out.exc = None),
                                  !.payload = Payload(out)]
             /\ dist' = res.dist
    /\ UNCHANGED <<page, call, entry, side_effect, tu, mn, calls>>

\* no warnings rather than an unknown number of them
WarningsResult_zero(out) ==
    IF out.exc # None THEN WarningsRecord(PyInt(0), <<>>)
    ELSE LET p == WarningsProcess(out.r.text)
         IN IF p.exc # None THEN WarningsPlaceholder
            ELSE WarningsRecord(p.count, p.titles)

\* fetch_met_eireann_warnings from the outcome of its http_get on: every
\* exception ends in the except branch
WarningsResult(out) ==
    IF out.exc # None THEN WarningsPlaceholder
    ELSE LET p == WarningsProcess(out.r.text)
         IN IF p.exc # None THEN WarningsPlaceholder
            ELSE WarningsRecord(p.count, p.titles)

fetch_met_eireann_warnings ==
    /\ fx.pc = "called"
    /\ fx.name = "warnings"
    /\ \E out \in http_get(WARNINGS_URL, Len(requests) + 1) :
          /\ requests' = Append(requests, Request(WARNINGS_URL, HTTP_TIMEOUT))
          /\ fx' = [fx EXCEPT !.pc = "returned", !.ret = WarningsResult(out),
                               !.got = (out.exc = None), !.payload = Payload(out)]
    /\ UNCHANGED <<page, call, entry, side_effect, tu, mn, dist, calls>>

\* no fires rather than an unknown number of them
FiresResult_zero(out) ==
    IF out.exc # None THEN FiresRecord(0)
    ELSE FiresRecord(FireCount(out.r.text))

\* fetch_forest_fires_data from the outcome of its http_get on
FiresResult(out) ==
    IF out.exc # None THEN FiresPlaceholder
    ELSE FiresRecord(FireCount(out.r.text))

fetch_forest_fires_data ==
    /\ fx.pc = "called"
    /\ fx.name = "fires"
    /\ \E out \in http_get(FIRES_URL, Len(requests) + 1) :
          /\ requests' = Append(requests, Request(FIRES_URL, HTTP_TIMEOUT))
          /\ fx' = [fx EXCEPT !.pc = "returned", !.ret = FiresResult(out),
                               !.got = (out.exc = None), !.payload = Payload(out)]
    /\ UNCHANGED <<page, call, entry, side_effect, tu, mn, dist, calls>>

\* the station page is asked for before the note is returned
fetch_psmsl_dublin_note_online ==
    /\ fx.pc = "called"
    /\ fx.name = "dublin"
    /\ requests' = Append(requests, Request(DublinRecord.link, HTTP_TIMEOUT))
    /\ fx' = [fx EXCEPT !.pc = "returned", !.ret = DublinRecord]
    /\ UNCHANGED <<page, call, entry, side_effect, tu, mn, dist, calls>>

fetch_psmsl_dublin_note ==
    /\ fx.pc = "called"
    /\ fx.name = "dublin"
    /\ fx' = [fx EXCEPT !.pc = "returned", !.ret = DublinRecord]
    /\ UNCHANGED <<page, call, entry, side_effect, tu, mn, requests, dist, calls>>

\* the head of the for loop of fetch_nsidc_arctic_daily: the next candidate
\* goes to try_urls, alone in its list, as bytes when it ends in .gz
fetch_nsidc_arctic_daily_next ==
    /\ fx.pc = "called"
    /\ fx.name = "nsidc"
    /\ fx.i <= Len(NsidcCandidates)
    /\ tu.pc = "idle"
    /\ tu' = TuCall(<<NsidcCandidates[fx.i]>>, TRY_TIMEOUT, EndsWithGz(NsidcCandidates[fx.i]),
                    Len(requests))
    /\ fx' = [fx EXCEPT !.pc = "await", !.payload = None]
    /\ UNCHANGED <<page, call, entry, side_effect, mn, requests, dist, calls>>

\* a chart file that is already there stands in when the saving fails
NsidcFinish_cached(p, d, disk) ==
    IF p.exc # None THEN [done |-> FALSE, dist |-> d]
    ELSE IF disk # "ok" /\ d[NSIDC_CHART] = NoFile
    THEN [done |-> FALSE, dist |-> save_png(d, NSIDC_CHART, p.tail, disk)]
    ELSE IF disk # "ok"
    THEN [done |-> TRUE, ret |-> NsidcRecord(p.latest_date, p.latest_val), dist |-> d]
    ELSE [done |-> TRUE,
          ret |-> NsidcRecord(p.latest_date, p.latest_val),
          dist |-> save_png(d, NSIDC_CHART, p.tail, disk)]

\* a record without its chart when the chart cannot be saved
NsidcFinish_partial(p, d, disk) ==
    IF p.exc # None THEN [done |-> FALSE, dist |-> d]
    ELSE IF disk # "ok"
    THEN [done |-> TRUE,
          ret |-> [NsidcRecord(p.latest_date, p.latest_val) EXCEPT !.chart = ""],
          dist |-> save_png(d, NSIDC_CHART, p.tail, disk)]
    ELSE [done |-> TRUE,
          ret |-> NsidcRecord(p.latest_date, p.latest_val),
          dist |-> save_png(d, NSIDC_CHART, p.tail, disk)]

\* lines 217-225 of one candidate, p being what the lines before gave: the
\* chart is saved and the record returned, or the candidate is given up
NsidcFinish(p, d, disk) ==
    IF p.exc # None THEN [done |-> FALSE, dist |-> d]
    ELSE IF disk # "ok"
    THEN [done |-> FALSE, dist |-> save_png(d, NSIDC_CHART, p.tail, disk)]
    ELSE [done |-> TRUE,
          ret |-> NsidcRecord(p.latest_date, p.latest_val),
          dist |-> save_png(d, NSIDC_CHART, p.tail, disk)]

\* the placeholder at the first download that fails
NsidcIteration_giveup(url, t, d, disk) ==
    IF t.pc = "raised" THEN [done |-> TRUE, ret |-> NsidcPlaceholder, dist |-> d]
    ELSE NsidcFinish(NsidcProcess(url, t.ret[2]), d, disk)

\* the rest of one iteration of fetch_nsidc_arctic_daily once try_urls is
\* back (t is its frame): done with a record, or on to the next candidate
NsidcIteration(url, t, d, disk) ==
    IF t.pc = "raised" THEN [done |-> FALSE, dist |-> d]
    ELSE NsidcFinish(NsidcProcess(url, t.ret[2]), d, disk)

fetch_nsidc_arctic_daily_body ==
    /\ fx.pc = "await"
    /\ fx.name = "nsidc"
    /\ tu.pc \in {"returned", "raised"}
    /\ \E disk \in DiskOutcomes :
          \E it \in {NsidcIteration(NsidcCandidates[fx.i], tu, dist, disk)} :
             /\ fx' = IF it.done
                      THEN [fx EXCEPT !.pc = "returned", !.ret = it.ret, !.got = TRUE,
                                      !.payload = IF tu.pc = "returned" THEN tu.ret[2]
                                                  ELSE None]
                      ELSE [fx EXCEPT !.pc = "called", !.i = @ + 1,
                                      !.got = (@ \/ tu.pc = "returned"),
                                      !.payload = IF tu.pc = "returned" THEN tu.ret[2]
                                                  ELSE None]
             /\ dist' = it.dist
    /\ tu' = TuIdle
    /\ UNCHANGED <<page, call, entry, side_effect, mn, requests, calls>>

\* the return after the for loop of fetch_nsidc_arctic_daily
fetch_nsidc_arctic_daily_placeholder ==
    /\ fx.pc = "called"
    /\ fx.name = "nsidc"
    /\ fx.i > Len(NsidcCandidates)
    /\ fx' = [fx EXCEPT !.pc = "returned", !.ret = NsidcPlaceholder]
    /\ UNCHANGED <<page, call, entry, side_effect, tu, mn, requests, dist, calls>>

\* the head of the for loop of fetch_noaa_ncei_ohc_latest
fetch_noaa_ncei_ohc_latest_next ==
    /\ fx.pc = "called"
    /\ fx.name = "ohc"
    /\ fx.i <= Len(OhcCandidates)
    /\ tu.pc = "idle"
    /\ tu' = TuCall(<<OhcCandidates[fx.i]>>, TRY_TIMEOUT, FALSE, Len(requests))
    /\ fx' = [fx EXCEPT !.pc = "await", !.payload = None]
    /\ UNCHANGED <<page, call, entry, side_effect, mn, requests, dist, calls>>

\* lines 294-300: a candidate that raised or was skipped leaves the loop going
OhcProcessed(p) ==
    IF p.exc # None \/ p.skip THEN [done |-> FALSE]
    ELSE [done |-> TRUE, ret |-> OhcRecord(p.latest_year, p.latest_val)]

\* the placeholder at the first candidate without a numeric column
OhcIteration_giveup(t) ==
    IF t.pc = "raised" THEN [done |-> FALSE]
    ELSE LET p == OhcProcess(t.ret[2])
         IN IF p.exc # None THEN [done |-> FALSE]
            ELSE IF p.skip THEN [done |-> TRUE, ret |-> OhcPlaceholder]
            ELSE [done |-> TRUE, ret |-> OhcRecord(p.latest_year, p.latest_val)]

\* the rest of one iteration of fetch_noaa_ncei_ohc_latest
OhcIteration(t) ==
    IF t.pc = "raised" THEN [done |-> FALSE] ELSE OhcProcessed(OhcProcess(t.ret[2]))

fetch_noaa_ncei_ohc_latest_body ==
    /\ fx.pc = "await"
    /\ fx.name = "ohc"
    /\ tu.pc \in {"returned", "raised"}
    /\ LET it == OhcIteration(tu)
       IN fx' = IF it.done
                THEN [fx EXCEPT !.pc = "returned", !.ret = it.ret, !.got = TRUE,
                                      !.payload = IF tu.pc = "returned" THEN tu.ret[2]
                                                  ELSE None]
                ELSE [fx EXCEPT !.pc = "called", !.i = @ + 1,
                                !.got = (@ \/ tu.pc = "returned"),
                                      !.payload = IF tu.pc = "returned" THEN tu.ret[2]
                                                  ELSE None]
    /\ tu' = TuIdle
    /\ UNCHANGED <<page, call, entry, side_effect, mn, requests, dist, calls>>

\* the return after the for loop of fetch_noaa_ncei_ohc_latest
fetch_noaa_ncei_ohc_latest_placeholder ==
    /\ fx.pc = "called"
    /\ fx.name = "ohc"
    /\ fx.i > Len(OhcCandidates)
    /\ fx' = [fx EXCEPT !.pc = "returned", !.ret = OhcPlaceholder]
    /\ UNCHANGED <<page, call, entry, side_effect, tu, mn, requests, dist, calls>>

-----------------------------------------------------------------------------
(* The page and the orchestrator (build.py).                               *)

\* the keys of the context main hands to build_html (line 487)
CtxKeys == {"co2", "warnings", "dublin", "nsidc", "ohc"}

\* the order in which main calls the fetchers (lines 465-485)
MainOrder == <<"co2", "warnings", "dublin", "nsidc", "ohc">>

\* the calls main wraps in try/except
Guarded == {"co2", "warnings", "nsidc", "ohc"}

\* the record main substitutes in the except branch of a fetcher
MainPlaceholder(name) ==
    CASE name = "co2" ->
           [year |-> NA, month |-> PyInt(0), ppm |-> NaN, chart |-> "",
            source |-> CO2_SOURCE]
      [] name = "warnings" ->
           [count |-> NA, titles |-> <<>>, source |-> WARNINGS_SOURCE]
      [] name = "nsidc" ->
           [latest |-> [date |-> NA, extent_mkm2 |-> NaN], chart |-> "",
            source |-> NSIDC_SOURCE]
      [] OTHER ->
           [year |-> NA, value |-> NA, units |-> "", source |-> OHC_SOURCE]

\* what now_utc_str() may return
Clock == {"2024-12-01 23:59 UTC", "2024-12-02 00:00 UTC"}

\* build_html(ctx): the page is a function of the context and of what
\* now_utc_str() returns (line 199), which it shows as "Generated: ..."
build_html(ctx, now) == <<"html", ctx, now>>

\* what the test harness can patch with side_effect=Exception
Patchable == Guarded \cup {"build_html"}

MockError(name) == Exc("Exception", name)

Counted == Fetchers \cup {"build_html", "write_text"}

MnIdle ==
    [pc |-> "idle", k |-> 1, locals |-> <<>>, html |-> None, exc |-> None,
     tracebacks |-> <<>>]

\* main calls the next fetcher of its sequence; a patched one raises at once
main_call ==
    /\ mn.pc = "fetch"
    /\ fx.pc = "idle"
    /\ LET name == MainOrder[mn.k]
       IN /\ calls' = [calls EXCEPT ![name] = @ + 1]
          /\ fx' = IF name \in side_effect
                   THEN [FxCall(name) EXCEPT !.pc = "raised", !.ret = MockError(name)]
                   ELSE FxCall(name)
    /\ mn' = [mn EXCEPT !.pc = "await"]
    /\ UNCHANGED <<page, call, entry, side_effect, tu, requests, dist>>

\* no try around any call
MainAfter_unguarded(m, f) ==
    LET name == MainOrder[m.k]
        next == IF m.k = Len(MainOrder) THEN "build" ELSE "fetch"
    IN IF f.pc = "returned"
       THEN [m EXCEPT !.locals = (name :> f.ret) @@ @, !.k = @ + 1, !.pc = next]
       ELSE [m EXCEPT !.pc = "raised", !.exc = f.ret]

\* main after the call of a fetcher: the record it returned, the record of
\* the except branch, or (no try around the call) the exception
MainAfter(m, f) ==
    LET name == MainOrder[m.k]
        next == IF m.k = Len(MainOrder) THEN "build" ELSE "fetch"
    IN IF f.pc = "returned"
       THEN [m EXCEPT !.locals = (name :> f.ret) @@ @, !.k = @ + 1, !.pc = next]
       ELSE IF name \in Guarded
       THEN [m EXCEPT !.locals = (name :> MainPlaceholder(name)) @@ @,
                      !.tracebacks = Append(@, <<name, f.ret>>),
                      !.k = @ + 1, !.pc = next]
       ELSE [m EXCEPT !.pc = "raised", !.exc = f.ret]

main_resume ==
    /\ mn.pc = "await"
    /\ fx.pc \in {"returned", "raised"}
    /\ mn' = MainAfter(mn, fx)
    /\ fx' = FxIdle
    /\ UNCHANGED <<page, call, entry, side_effect, tu, requests, dist, calls>>

\* the failure of build_html is caught and an empty page written
MainBuild_caught(m, patched, now) ==
    IF patched
    THEN [m EXCEPT !.pc = "write", !.html = <<"html", <<>>, now>>]
    ELSE [m EXCEPT !.pc = "write",
                   !.html = build_html([key \in CtxKeys |-> m.locals[key]], now)]

\* html = build_html({...}) (line 487)
MainBuild(m, patched, now) ==
    IF patched
    THEN [m EXCEPT !.pc = "raised", !.exc = MockError("build_html")]
    ELSE [m EXCEPT !.pc = "write",
                   !.html = build_html([key \in CtxKeys |-> m.locals[key]], now)]

main_build_html ==
    /\ mn.pc = "build"
    /\ calls' = [calls EXCEPT !["build_html"] = @ + 1]
    /\ \E now \in Clock : mn' = MainBuild(mn, "build_html" \in side_effect, now)
    /\ UNCHANGED <<page, call, entry, side_effect, tu, fx, requests, dist>>

\* an empty page is written, whatever build_html returned
main_write_text_blank ==
    /\ mn.pc = "write"
    /\ calls' = [calls EXCEPT !["write_text"] = @ + 1]
    /\ \E disk \in DiskOutcomes :
          /\ dist' = WriteFile(dist, INDEX_HTML, <<"html", <<>>, mn.html[3]>>, disk)
          /\ mn' = IF disk = "ok" THEN [mn EXCEPT !.pc = "done"]
                   ELSE [mn EXCEPT !.pc = "raised", !.exc = OSError]
    /\ UNCHANGED <<page, call, entry, side_effect, tu, fx, requests>>

\* (OUT / "index.html").write_text(html) (line 488)
main_write_text ==
    /\ mn.pc = "write"
    /\ calls' = [calls EXCEPT !["write_text"] = @ + 1]
    /\ \E disk \in DiskOutcomes :
          /\ dist' = WriteFile(dist, INDEX_HTML, mn.html, disk)
          /\ mn' = IF disk = "ok" THEN [mn EXCEPT !.pc = "done"]
                   ELSE [mn EXCEPT !.pc = "raised", !.exc = OSError]
    /\ UNCHANGED <<page, call, entry, side_effect, tu, fx, requests>>

-----------------------------------------------------------------------------
(* Rendering: fmt_num (utils.py) and the tiles and the page of             *)
(* html_builder.py.  A rendered text is a sequence of pieces: the single   *)
(* characters of a number, a character outside ASCII by its code point, a  *)
(* URL or a note as one piece.  The page is the record of the texts that   *)
(* depend on the context; the markup around them is constant.              *)

\* None where a value of a record is looked for: what d.get(key) gives for
\* a key the dict lacks
PyNone == <<"NoneType">>

Digit(d) == <<"0", "1", "2", "3", "4", "5", "6", "7", "8", "9">>[d + 1]

RECURSIVE Digits(_)
Digits(n) == IF n < 10 THEN <<Digit(n)>> ELSE Digits(n \div 10) \o <<Digit(n % 10)>>

\* str(n) of an int
IntText(n) == IF n < 0 THEN <<"-">> \o Digits(0 - n) ELSE Digits(n)

\* s.zfill(2)
ZFill(s) == IF Len(s) = 0 THEN <<"0", "0">> ELSE IF Len(s) = 1 THEN <<"0">> \o s ELSE s

\* f"{x:.{nd}f}" of the float h/100, nd being 2 or 0; the half goes to the
\* even neighbour
FixedText(h, nd) ==
    LET a == IF h < 0 THEN 0 - h ELSE h
        q == a \div 100
        r == a % 100
        up == IF r > 50 \/ (r = 50 /\ q % 2 = 1) THEN q + 1 ELSE q
        sign == IF h < 0 THEN <<"-">> ELSE <<>>
    IN IF nd = 0 THEN sign \o Digits(up)
       ELSE sign \o Digits(q) \o <<".", Digit(r \div 10), Digit(r % 10)>>

\* the float rendered with two decimals, as f"{x:.2f}" would
ReprFloat_fixed(h) == FixedText(h, 2)

\* str(x) of the float h/100: the shortest digits that read back as x
ReprFloat(h) ==
    LET a == IF h < 0 THEN 0 - h ELSE h
        r == a % 100
    IN (IF h < 0 THEN <<"-">> ELSE <<>>) \o Digits(a \div 100) \o <<".", Digit(r \div 10)>>
       \o (IF r % 10 = 0 THEN <<>> ELSE <<Digit(r % 10)>>)

\* str(v), as an f-string renders a value
StrOf(v) ==
    IF v = PyNone THEN <<"N", "o", "n", "e">>
    ELSE IF v = NaN THEN <<"n", "a", "n">>
    ELSE IF v = NA THEN <<"N", "/", "A">>
    ELSE IF v[1] = "int" THEN IntText(v[2])
    ELSE IF v[1] = "float" THEN ReprFloat(v[2])
    ELSE IF v[1] = "str" /\ Len(v) = 4
    THEN IntText(v[2]) \o <<"-">> \o ZFill(IntText(v[3])) \o <<"-">> \o ZFill(IntText(v[4]))
    ELSE IF v[1] = "jstr" THEN v[2]
    ELSE IF v[2] = "" THEN <<>>
    ELSE <<v[2]>>

\* the em dash the templates write
DASH == <<"U+2014">>

\* the default of fmt_num as utils.py spells it: three characters, the
\* bytes of an em dash read as Windows-1252
FMT_DEFAULT == <<"U+00E2", "U+20AC", "U+201D">>

\* fmt_num(val, nd, default): float() of a text that is no number raises
\* ValueError, which the except branch turns into the default
fmt_num(val, nd, default) ==
    IF val = PyNone \/ val = NaN THEN default
    ELSE IF val[1] = "int" THEN IntText(val[2])
    ELSE IF val[1] = "float" THEN FixedText(val[2], nd)
    ELSE default

\* d.get(key, default) of a dict
Get(d, key, default) == IF key \in DOMAIN d THEN d[key] ELSE default

\* the first of the keys that d lacks, as the KeyError of d[key]
Subscript(d, keys) ==
    IF \A k \in 1..Len(keys) : keys[k] \in DOMAIN d THEN None
    ELSE Exc("KeyError", keys[FirstTrue([k \in 1..Len(keys) |-> keys[k] \notin DOMAIN d])])

\* nsidc.get("latest", {}).get(key, default)
NsidcLatestGet(nsidc, key, default) ==
    IF "latest" \in DOMAIN nsidc THEN Get(nsidc.latest, key, default) ELSE default

\* lines 38-43 and the three texts of the template of build_simple_tiles
build_simple_tiles(ctx) ==
    IF Subscript(ctx, <<"co2", "nsidc", "fires">>) # None
    THEN [exc |-> Subscript(ctx, <<"co2", "nsidc", "fires">>)]
    ELSE [exc |-> None,
          co2_ppm |-> fmt_num(Get(ctx["co2"], "ppm", PyNone), 2, FMT_DEFAULT),
          nsidc_val |-> fmt_num(NsidcLatestGet(ctx["nsidc"], "extent_mkm2", NaN), 2, FMT_DEFAULT),
          fires_count |-> fmt_num(Get(ctx["fires"], "count", PyNone), 0, FMT_DEFAULT)]

\* the titles after the first, each behind ", "
RECURSIVE FoldTitles(_)
FoldTitles(titles) ==
    IF titles = <<>> THEN <<>>
    ELSE <<",", " ">> \o titles[1][2] \o FoldTitles(Tail(titles))

\* ", ".join(titles): TypeError when an item is no str
Join(titles) ==
    IF \E k \in 1..Len(titles) : titles[k][1] # "jstr"
    THEN [exc |-> Exc("TypeError", "sequence item: expected str instance")]
    ELSE [exc |-> None,
          text |-> IF titles = <<>> THEN <<>>
                   ELSE titles[1][2] \o FoldTitles(Tail(titles))]

\* the sub line of the warnings card (line 122): the titles joined, the
\* dash when there is none
WarnTitles(warn) ==
    IF Get(warn, "titles", <<>>) = <<>>
    THEN [exc |-> None, text |-> DASH]
    ELSE IF Join(warn.titles).exc # None THEN Join(warn.titles)
    ELSE [exc |-> None,
          text |-> IF Join(warn.titles).text = <<>> THEN DASH ELSE Join(warn.titles).text]

\* the chart of the sea-ice card (line 129)
NsidcChartHtml(nsidc) ==
    IF Get(nsidc, "chart", "") = ""
    THEN "<div class='sub'>Chart unavailable this run.</div>"
    ELSE <<"img", nsidc.chart>>

\* the subscripts of build_details_tiles that raise KeyError: the six
\* records (line 104), then the fields the template subscripts
DetailsKeyError(ctx) ==
    IF Subscript(ctx, <<"co2", "warnings", "dublin", "nsidc", "ohc", "fires">>) # None
    THEN Subscript(ctx, <<"co2", "warnings", "dublin", "nsidc", "ohc", "fires">>)
    ELSE IF Subscript(ctx["co2"], <<"source">>) # None THEN Subscript(ctx["co2"], <<"source">>)
    ELSE IF Subscript(ctx["warnings"], <<"source">>) # None
    THEN Subscript(ctx["warnings"], <<"source">>)
    ELSE IF Subscript(ctx["nsidc"], <<"source">>) # None
    THEN Subscript(ctx["nsidc"], <<"source">>)
    ELSE IF Subscript(ctx["dublin"], <<"note", "link">>) # None
    THEN Subscript(ctx["dublin"], <<"note", "link">>)
    ELSE Subscript(ctx["ohc"], <<"source">>)

\* the texts of the six cards of build_details_tiles (lines 106-149)
DetailsCards(ctx, titles) ==
    [exc |-> None,
     co2_ppm |-> fmt_num(Get(ctx["co2"], "ppm", PyNone), 2, FMT_DEFAULT),
     co2_date |-> StrOf(Get(ctx["co2"], "year", NA)) \o <<"-">>
                  \o ZFill(StrOf(Get(ctx["co2"], "month", PyStr("")))),
     co2_source |-> ctx["co2"].source,
     co2_chart |-> Get(ctx["co2"], "chart", ""),
     warn_count |-> fmt_num(Get(ctx["warnings"], "count", PyNone), 0, FMT_DEFAULT),
     warn_titles |-> titles,
     warn_source |-> ctx["warnings"].source,
     nsidc_val |-> fmt_num(NsidcLatestGet(ctx["nsidc"], "extent_mkm2", NaN), 2, FMT_DEFAULT),
     nsidc_date |-> StrOf(NsidcLatestGet(ctx["nsidc"], "date", NA)),
     nsidc_source |-> ctx["nsidc"].source,
     nsidc_chart |-> NsidcChartHtml(ctx["nsidc"]),
     dublin_note |-> ctx["dublin"].note,
     dublin_link |-> ctx["dublin"].link,
     ohc_value |-> StrOf(Get(ctx["ohc"], "value", PyNone)),
     ohc_units |-> Get(ctx["ohc"], "units", ""),
     ohc_year |-> StrOf(Get(ctx["ohc"], "year", NA)),
     ohc_source |-> ctx["ohc"].source,
     fires_count |-> fmt_num(Get(ctx["fires"], "count", PyNone), 0, FMT_DEFAULT),
     fires_description |-> Get(ctx["fires"], "description", ""),
     fires_source |-> Get(ctx["fires"], "source", "")]

build_details_tiles(ctx) ==
    IF DetailsKeyError(ctx) # None THEN [exc |-> DetailsKeyError(ctx)]
    ELSE IF WarnTitles(ctx["warnings"]).exc # None THEN [exc |-> WarnTitles(ctx["warnings"]).exc]
    ELSE DetailsCards(ctx, WarnTitles(ctx["warnings"]).text)

\* the sources line of the page (line 757)
PageSources(ctx) ==
    <<ctx["co2"].source, ctx["nsidc"].source, ctx["ohc"].source, ctx["dublin"].link,
      ctx["warnings"].source, Get(ctx["fires"], "source", "")>>

\* html_builder.build_html(ctx), now being what now_utc_str() returns
html_builder_build_html(ctx, now) ==
    IF Subscript(ctx, <<"co2", "warnings", "dublin", "nsidc", "ohc", "fires">>) # None
    THEN [exc |-> Subscript(ctx, <<"co2", "warnings", "dublin", "nsidc", "ohc", "fires">>)]
    ELSE IF build_simple_tiles(ctx).exc # None THEN [exc |-> build_simple_tiles(ctx).exc]
    ELSE IF build_details_tiles(ctx).exc # None THEN [exc |-> build_details_tiles(ctx).exc]
    ELSE [exc |-> None,
          html |-> [generated |-> now,
                    simple_tiles |-> build_simple_tiles(ctx),
                    details_tiles |-> build_details_tiles(ctx),
                    sources |-> PageSources(ctx)]]

-----------------------------------------------------------------------------
(* The records the fetchers can return.                                    *)

\* the records one response alone can give, per source
Co2Records ==
    {Co2Record(p.latest_year, p.latest_month, p.latest_ppm) :
       p \in {q \in {Co2Process(Response(b).text) : b \in Co2Bodies} : q.exc = None}}
WarningsRecords ==
    {WarningsRecord(p.count, p.titles) :
       p \in {q \in {WarningsProcess(Response(b).text) : b \in WarningsBodies} : q.exc = None}}
FiresRecords == {FiresRecord(FireCount(Response(b).text)) : b \in FiresBodies}
OhcRecords ==
    {OhcRecord(p.latest_year, p.latest_val) :
       p \in {q \in {OhcProcess(Response(b).text) : b \in OhcBodies} :
                q.exc = None /\ ~q.skip}}
\* the sea-ice records candidate url can give: a .gz candidate those of the
\* documents served compressed, another those of the documents served raw
NsidcRecordsFrom(url) ==
    {NsidcRecord(p.latest_date, p.latest_val) :
       p \in {q \in {NsidcFromParsed(_parse_nsidc_daily_csv(<<"str", b.doc>>)) :
                       b \in {c \in NsidcBodies : c.gzip = EndsWithGz(url)}} :
                q.exc = None}}
NsidcRecords == UNION {NsidcRecordsFrom(NsidcCandidates[k]) : k \in 1..Len(NsidcCandidates)}

-----------------------------------------------------------------------------
(* Functions called on their own, as the unit tests do.                    *)

CallIdle == [pc |-> "idle", fn |-> "", arg |-> None, ret |-> None]
\* the frame of a call fn(arg)
DirectCall(fn, arg) == [pc |-> "called", fn |-> fn, arg |-> arg, ret |-> None]

\* what may stand before the header of a sea-ice file
Preamble == {Hash, Blank, Text(<<"S", "o", "m", "e">>)}

NsidcHeaders ==
    {NsidcHeader,
     Cells(<<TWord.YYYY, TWord.MM, TWord.DD, TWord.EXTENT>>),
     Cells(<<TWord.Year, TWord.Month, TWord.Day, TWord.Area>>),
     Cells(<<TWord.Year, TWord.Month, TWord.Note, TWord.Extent>>)}

\* data lines: none; three days in order; days out of order, one that is no
\* calendar date, one without extent
NsidcDataLines ==
    {<<>>,
     <<Cells(<<Whole(2024), Whole(12), Whole(1), Num(1250)>>),
       Cells(<<Whole(2024), Whole(12), Whole(2), Num(1230)>>),
       Cells(<<Whole(2024), Whole(12), Whole(3), Num(1210)>>)>>,
     <<Cells(<<Whole(2024), Whole(12), Whole(2), Num(1230)>>),
       Cells(<<Whole(2024), Whole(2), Whole(30), Num(900)>>),
       Cells(<<Whole(2024), Whole(12), Whole(1), Whole(NSIDC_MISSING)>>)>>}

\* the texts _parse_nsidc_daily_csv is called with
ParseNsidcTexts ==
    {<<"str", Csv(pre \o <<hdr>> \o data)>> :
       pre \in SeqsUpTo(Preamble, MaxPreamble), hdr \in NsidcHeaders, data \in NsidcDataLines}
    \cup {<<"str", Csv(<<>>)>>, <<"str", Html>>}

\* df, ecol = _parse_nsidc_daily_csv(text)
parse_nsidc_daily_csv_call ==
    /\ call.pc = "called"
    /\ call.fn = "_parse_nsidc_daily_csv"
    /\ \E p \in {_parse_nsidc_daily_csv(call.arg)} :
          call' = IF p.exc = None
                  THEN [call EXCEPT !.pc = "returned", !.ret = [df |-> p.df, ecol |-> p.ecol]]
                  ELSE [call EXCEPT !.pc = "raised", !.ret = p.exc]
    /\ UNCHANGED <<page, entry, side_effect, tu, fx, mn, requests, dist, calls>>

-----------------------------------------------------------------------------
(* The runs.                                                               *)

\* the contexts html_builder.build_html is called with: for every source a
\* record its fetcher can return or its placeholder, in every combination,
\* and the context of five records that main of build.py assembles
RenderContexts ==
    {("co2" :> c) @@ ("warnings" :> w) @@ ("dublin" :> DublinRecord) @@ ("nsidc" :> n)
       @@ ("ohc" :> o) @@ ("fires" :> f) :
       c \in Co2Records \cup {MainPlaceholder("co2")},
       w \in WarningsRecords \cup {WarningsPlaceholder},
       n \in NsidcRecords \cup {NsidcPlaceholder},
       o \in OhcRecords \cup {OhcPlaceholder},
       f \in FiresRecords \cup {FiresPlaceholder}}
    \cup {[key \in CtxKeys |-> IF key = "dublin" THEN DublinRecord ELSE MainPlaceholder(key)]}

\* the sentinels of the CO2 record are cleared in the caller's context
html_builder_build_html_call_mutating ==
    /\ call.pc = "called"
    /\ call.fn = "html_builder.build_html"
    /\ \E now \in Clock :
          \E p \in {html_builder_build_html(call.arg, now)} :
             call' = IF p.exc = None
                     THEN [call EXCEPT !.pc = "returned", !.ret = p.html,
                                       !.arg = [@ EXCEPT !["co2"] = [@ EXCEPT !.chart = ""]]]
                     ELSE [call EXCEPT !.pc = "raised", !.ret = p.exc]
    /\ UNCHANGED <<page, entry, side_effect, tu, fx, mn, requests, dist, calls>>

html_builder_build_html_call ==
    /\ call.pc = "called"
    /\ call.fn = "html_builder.build_html"
    /\ \E now \in Clock :
          \E p \in {html_builder_build_html(call.arg, now)} :
             call' = IF p.exc = None THEN [call EXCEPT !.pc = "returned", !.ret = p.html]
                     ELSE [call EXCEPT !.pc = "raised", !.ret = p.exc]
    /\ UNCHANGED <<page, entry, side_effect, tu, fx, mn, requests, dist, calls>>

\* a year of days, newest first: a line for each day 1..31 of each month of
\* 2024, those that are no calendar date included, after a newer line
\* without extent
NsidcLeapYear ==
    Csv(<<NsidcHeader, NsidcRow(2025, 1, 1, NSIDC_MISSING * 100)>>
        \o [k \in 1..372 |->
              NsidcRow(2024, 12 - ((k - 1) \div 31), 31 - ((k - 1) % 31), 1372 - k)])

\* the texts the patched try_urls hands to fetch_nsidc_arctic_daily
PatchedNsidcTexts ==
    {<<"str", doc>> : doc \in {NsidcLeapYear, NsidcGood, NsidcGood2, NsidcAllMissing,
                               NsidcNoExtent, Html}}

\* fetch_nsidc_arctic_daily() with try_urls patched to return the text for
\* every candidate and save_png patched to record its calls: the first
\* candidate gives the record, or it fails and so does every other one (the
\* .gz ones at gzip.decompress of a str)
fetch_nsidc_arctic_daily_patched ==
    /\ call.pc = "called"
    /\ call.fn = "fetch_nsidc_arctic_daily"
    /\ \E p \in {NsidcProcess(NsidcCandidates[1], call.arg)} :
          call' = [call EXCEPT
                     !.pc = "returned",
                     !.ret = IF p.exc = None
                             THEN [record |-> NsidcRecord(p.latest_date, p.latest_val),
                                   save_png |-> <<[fig |-> p.tail, path |-> NSIDC_CHART]>>]
                             ELSE [record |-> NsidcPlaceholder, save_png |-> <<>>]]
    /\ UNCHANGED <<page, entry, side_effect, tu, fx, mn, requests, dist, calls>>

\* the year in the second column, named in upper case; two numeric columns
\* besides it; rows out of order, the newest without the first value, the
\* next without the second
OhcYearSecond ==
    Csv(<<Hash, Cells(<<TWord.OHC, TWord.YEAR, TWord.Area>>),
          Cells(<<Num(1450), Whole(2019), Num(290)>>),
          Cells(<<NaN, Whole(2024), Num(310)>>),
          Cells(<<Num(1500), Whole(2021), Num(300)>>),
          Cells(<<Num(1480), Whole(2022), NaN>>),
          Cells(<<Num(1470), Whole(2020), Num(295)>>)>>)

\* the test's file: Year,OHC with 2023 before 2022
OhcNewestFirst ==
    Csv(<<Cells(<<TWord.Year, TWord.OHC>>), Cells(<<Whole(2023), Num(1520)>>),
          Cells(<<Whole(2022), Num(1480)>>)>>)

\* the texts the patched try_urls hands to fetch_noaa_ncei_ohc_latest
PatchedOhcTexts ==
    {<<"str", doc>> : doc \in {OhcYearSecond, OhcNewestFirst, OhcGood, OhcGood2, OhcNoNumeric,
                               OhcMissingYear, Html}}

\* fetch_noaa_ncei_ohc_latest() with try_urls patched to return the text for
\* every candidate: the first candidate gives the record, or it fails or is
\* skipped and so is every other one
fetch_noaa_ncei_ohc_latest_patched ==
    /\ call.pc = "called"
    /\ call.fn = "fetch_noaa_ncei_ohc_latest"
    /\ \E p \in {OhcProcess(call.arg)} :
          call' = [call EXCEPT
                     !.pc = "returned",
                     !.ret = IF p.exc = None /\ ~p.skip
                             THEN OhcRecord(p.latest_year, p.latest_val)
                             ELSE OhcPlaceholder]
    /\ UNCHANGED <<page, entry, side_effect, tu, fx, mn, requests, dist, calls>>

\* an upstream answers a URL with the same reply whenever it is asked: a
\* body, or no connection
Reply(body) == [exc |-> None, r |-> Response(body)]
NoReply(url) == [exc |-> [type |-> "ConnectionError", msg |-> url, req |-> 0]]

\* the replies to the sea-ice candidates: the first has the file; only the
\* second, compressed, has it; none has a file with an extent
NsidcReplies ==
    {<<Reply(Raw(NsidcGood)), Reply(Gz(NsidcGood)), Reply(Raw(NsidcGood)), Reply(Gz(NsidcGood))>>,
     <<NoReply(NsidcCandidates[1]), Reply(Gz(NsidcGood2)), NoReply(NsidcCandidates[3]),
       NoReply(NsidcCandidates[4])>>,
     <<Reply(Raw(NsidcNoExtent)), NoReply(NsidcCandidates[2]), NoReply(NsidcCandidates[3]),
       Reply(Gz(NsidcAllMissing))>>}

\* the replies to the ocean-heat candidates: only the third has a file with
\* a numeric column; none answers
OhcReplies ==
    {<<Reply(Raw(OhcNoNumeric)), NoReply(OhcCandidates[2]), Reply(Raw(OhcGood2))>>,
     <<NoReply(OhcCandidates[1]), NoReply(OhcCandidates[2]), NoReply(OhcCandidates[3])>>}

\* an upstream: the reply to each URL the fetchers ask for
Upstream(co2, warnings, fires, nsidc, ohc) ==
    (CO2_URL :> co2) @@ (WARNINGS_URL :> warnings) @@ (FIRES_URL :> fires)
    @@ [url \in {NsidcCandidates[k] : k \in 1..Len(NsidcCandidates)} |->
          nsidc[CHOOSE k \in 1..Len(NsidcCandidates) : NsidcCandidates[k] = url]]
    @@ [url \in {OhcCandidates[k] : k \in 1..Len(OhcCandidates)} |->
          ohc[CHOOSE k \in 1..Len(OhcCandidates) : OhcCandidates[k] = url]]

Upstreams ==
    {Upstream(co2, warnings, fires, nsidc, ohc) :
       co2 \in {Reply(Raw(Co2Good)), Reply(Raw(Co2AllMissing)), NoReply(CO2_URL)},
       warnings \in {Reply(Raw(WarningsMany)), NoReply(WARNINGS_URL)},
       fires \in {Reply(Raw(FiresThree)), NoReply(FIRES_URL)},
       nsidc \in NsidcReplies,
       ohc \in OhcReplies}

\* try_urls([url], binary=binary) against the upstream up: its frame when
\* it is over
TryOne(up, url, binary) ==
    IF up[url].exc = None
    THEN [pc |-> "returned", ret |-> <<url, TryUrlsContent(up[url].r, binary)>>]
    ELSE [pc |-> "raised", ret |-> TryUrlsError(TryUrlsLastErr(None, up[url].exc))]

\* fetch_nsidc_arctic_daily() from candidate i on: its record and the
\* directory afterwards
RECURSIVE NsidcLoop(_, _, _, _)
NsidcLoop(up, i, d, disk) ==
    IF i > Len(NsidcCandidates) THEN [ret |-> NsidcPlaceholder, dist |-> d]
    ELSE LET it == NsidcIteration(NsidcCandidates[i],
                                  TryOne(up, NsidcCandidates[i], EndsWithGz(NsidcCandidates[i])),
                                  d, disk)
         IN IF it.done THEN [ret |-> it.ret, dist |-> it.dist]
            ELSE NsidcLoop(up, i + 1, it.dist, disk)

\* fetch_noaa_ncei_ohc_latest() from candidate i on
RECURSIVE OhcLoop(_, _)

\* after the iteration it of candidate i: its record, or the next candidate
OhcAfter(up, i, it) == IF it.done THEN it.ret ELSE OhcLoop(up, i + 1)

OhcLoop(up, i) ==
    IF i > Len(OhcCandidates) THEN OhcPlaceholder
    ELSE OhcAfter(up, i, OhcIteration(TryOne(up, OhcCandidates[i], FALSE)))

\* the records of one run against the upstream up: the five main collects
\* (co2 being what the CO2 fetcher did, replaced by the placeholder of the
\* except branch when it raised; nsidc what the sea-ice fetcher returned)
\* and that of the fires fetcher
RunRecords(up, co2, nsidc) ==
    ("co2" :> (IF co2.pc = "returned" THEN co2.ret ELSE MainPlaceholder("co2")))
    @@ ("warnings" :> WarningsResult(up[WARNINGS_URL]))
    @@ ("dublin" :> DublinRecord)
    @@ ("nsidc" :> nsidc.ret)
    @@ ("ohc" :> OhcLoop(up, 1))
    @@ ("fires" :> FiresResult(up[FIRES_URL]))

\* what a run leaves: its records, the page of build.py and that of
\* html_builder.py for them, and the directory d with index.html written
RunOf(records, html, d, disk, now) ==
    [records |-> records,
     html |-> html,
     page |-> html_builder_build_html(records, now).html,
     dist |-> WriteFile(d, INDEX_HTML, html, disk)]

\* the upstreams and the outcomes of the saves of the two runs
TwoRuns ==
    [up : Upstreams,
     disk : {<<"ok", "ok">>, <<"partial", "partial">>, <<"fail", "fail">>, <<"fail", "ok">>}]

\* the first of two runs against the same upstream
pipeline_first_run ==
    /\ call.pc = "called"
    /\ call.fn = "pipeline twice"
    /\ \E now \in Clock :
          \E co2 \in {Co2Result(call.arg.up[CO2_URL], dist, call.arg.disk[1])} :
             \E nsidc \in {NsidcLoop(call.arg.up, 1, co2.dist, call.arg.disk[1])} :
                \E records \in {RunRecords(call.arg.up, co2, nsidc)} :
                   \E html \in {build_html([key \in CtxKeys |-> records[key]], now)} :
                      \E run \in {RunOf(records, html, nsidc.dist, call.arg.disk[1], now)} :
                         /\ call' = [call EXCEPT !.pc = "again", !.ret = <<run>>]
                         /\ dist' = run.dist
    /\ UNCHANGED <<page, entry, side_effect, tu, fx, mn, requests, calls>>

\* the second run, from the directory the first left
pipeline_second_run ==
    /\ call.pc = "again"
    /\ call.fn = "pipeline twice"
    /\ \E now \in Clock :
          \E co2 \in {Co2Result(call.arg.up[CO2_URL], dist, call.arg.disk[2])} :
             \E nsidc \in {NsidcLoop(call.arg.up, 1, co2.dist, call.arg.disk[2])} :
                \E records \in {RunRecords(call.arg.up, co2, nsidc)} :
                   \E html \in {build_html([key \in CtxKeys |-> records[key]], now)} :
                      \E run \in {RunOf(records, html, nsidc.dist, call.arg.disk[2], now)} :
                         /\ call' = [call EXCEPT !.pc = "returned", !.ret = Append(@, run)]
                         /\ dist' = run.dist
    /\ UNCHANGED <<page, entry, side_effect, tu, fx, mn, requests, calls>>

\* the default keyword of fmt_num left out of the call
Omitted == <<"omitted">>

\* the values, decimals and defaults fmt_num is called with: nothing, NaN,
\* ints, floats and texts that are no number
FmtNumArguments ==
    [val : {PyNone, NaN, PyInt(42), PyInt(0), PyInt(0 - 5), PyFloat(4250), PyFloat(4200),
            PyFloat(1520), PyFloat(4257), PyFloat(0 - 50), PyFloat(0 - 1234),
            PyStr("invalid"), NA},
     nd : {0, 2},
     default : {Omitted, <<"N", "/", "A">>}]

\* s = fmt_num(val, nd) or fmt_num(val, nd, default)
fmt_num_call ==
    /\ call.pc = "called"
    /\ call.fn = "fmt_num"
    /\ call' = [call EXCEPT
                  !.pc = "returned",
                  !.ret = fmt_num(call.arg.val, call.arg.nd,
                                  IF call.arg.default = Omitted THEN FMT_DEFAULT
                                  ELSE call.arg.default)]
    /\ UNCHANGED <<page, entry, side_effect, tu, fx, mn, requests, dist, calls>>

-----------------------------------------------------------------------------
(***************************************************************************)
(* The page in a browser: the markup build_html writes and the script of  *)
(* build_javascript, which runs once when the page loads and then on      *)
(* clicks, inputs and timer ticks.                                        *)
(***************************************************************************)

\* no page is open
NoPage == [closed |-> TRUE]

\* the factor of m_to_inches, in ten-thousandths
INCH_PER_M == 393701

\* m_to_inches(m) of m = cm/100 metres, in millionths of an inch
m_to_inches(cm) == cm * INCH_PER_M

Scenarios == {"low", "mid", "high"}

SEA_LEVEL_2050_INCH ==
    [low |-> <<m_to_inches(15), m_to_inches(23)>>,
     mid |-> <<m_to_inches(20), m_to_inches(29)>>,
     high |-> <<m_to_inches(20), m_to_inches(29)>>]

\* f"{x:.1f}" of x = u millionths: the tenths, the half going to the even
\* neighbour, written with one decimal
OneDecimal(u) ==
    LET q == u \div 100000
        r == u % 100000
        t == IF r > 50000 \/ (r = 50000 /\ q % 2 = 1) THEN q + 1 ELSE q
    IN Digits(t \div 10) \o <<".", Digit(t % 10)>>

\* a number literal of one decimal as the script writes it back in a string
\* concatenation: a number that is whole loses its ".0"
JsNumberText(txt) ==
    IF txt[Len(txt)] = "0" THEN SubSeq(txt, 1, Len(txt) - 2) ELSE txt

\* const SLR of the script: the two numbers of each scenario
SLR ==
    [s \in Scenarios |->
        <<JsNumberText(OneDecimal(SEA_LEVEL_2050_INCH[s][1])),
          JsNumberText(OneDecimal(SEA_LEVEL_2050_INCH[s][2]))>>]

SCN_LABEL == [low |-> "Low", mid |-> "Middle", high |-> "High"]

\* the en dash between the two numbers
EN_DASH == "U+2013"

\* the text content of #slr: 'By ' y ': ' lo '-' hi ' inches (' label ')'
SlrText(y, lo, hi, label) == <<"By ", y, ": ", lo, EN_DASH, hi, " inches (", label, ")">>

\* the slider's attributes min, max and value
YR_MIN == 2025
YR_MAX == 2050
YR_VALUE == 2050

\* the data-tab of the two .tabbtn buttons, and const secs: the section each names
tabs == {"simple", "details"}
secs == [simple |-> "simple", details |-> "details"]
Sections == {secs[b] : b \in tabs}

\* the page as the markup gives it, before the script has run: btn and sec
\* are the buttons and sections whose class list holds "active", checked the
\* radio that is checked, yr the slider's value, slr the text of #slr as
\* fmt_num(..., 1) wrote it; scenario is the script's variable and intervals
\* the timers of animateProjections, each with its currentYear; touched
\* tells that the slider was moved by hand since the last click on Animate
Markup ==
    [btn |-> {"simple"},
     sec |-> {"simple"},
     checked |-> "mid",
     yr |-> YR_VALUE,
     slr |-> SlrText(IntText(YR_VALUE), OneDecimal(SEA_LEVEL_2050_INCH["mid"][1]),
                     OneDecimal(SEA_LEVEL_2050_INCH["mid"][2]), "Middle"),
     scenario |-> "mid",
     intervals |-> <<>>,
     touched |-> FALSE]

\* updateSLR() that shows the scenario the script held before the change
updateSLR_stale(p) ==
    [p EXCEPT !.slr = SlrText(IntText(p.yr), SLR[p.scenario][1], SLR[p.scenario][2],
                              p.slr[8])]

\* updateSLR(): the text of #slr from the slider's value and the scenario
updateSLR(p) ==
    [p EXCEPT !.slr = SlrText(IntText(p.yr), SLR[p.scenario][1], SLR[p.scenario][2],
                              SCN_LABEL[p.scenario])]

\* the page once the script has run: the listeners are set and updateSLR()
\* was called once
Loaded == updateSLR(Markup)

\* the click listener that leaves the other button and section as they were
TabClick_add(p, btn) ==
    [p EXCEPT !.btn = p.btn \cup {btn}, !.sec = p.sec \cup {secs[btn]}]

\* the click listener of a tab button
TabClick(p, btn) ==
    [p EXCEPT !.btn = (p.btn \ tabs) \cup {btn},
              !.sec = (p.sec \ Sections) \cup {secs[btn]}]

\* a click on a tab button
tab_click ==
    /\ page # NoPage
    /\ \E btn \in tabs : page' = TabClick(page, btn)
    /\ UNCHANGED <<entry, side_effect, tu, fx, mn, requests, dist, calls, call>>

\* the change listener of the radios: another radio gets checked
scn_change ==
    /\ page # NoPage
    /\ \E v \in Scenarios \ {page.checked} :
          page' = updateSLR([page EXCEPT !.checked = v, !.scenario = v])
    /\ UNCHANGED <<entry, side_effect, tu, fx, mn, requests, dist, calls, call>>

\* the years a hand moves the slider to
SliderInputs == {YR_MIN, 2030, YR_MAX}

\* the input listener of the slider: the slider is moved to another year
yr_input ==
    /\ page # NoPage
    /\ \E y \in SliderInputs \ {page.yr} :
          page' = updateSLR([page EXCEPT !.yr = y,
                                         !.touched = Len(page.intervals) > 0])
    /\ UNCHANGED <<entry, side_effect, tu, fx, mn, requests, dist, calls, call>>

startYear == 2025
endYear == 2050

\* how many times Animate Projections is clicked
MaxClicks == 2

\* animateProjections(): a new interval with its own currentYear
animateProjections(p) ==
    [p EXCEPT !.intervals = Append(@, [currentYear |-> startYear, cleared |-> FALSE]),
              !.touched = FALSE]

\* a click on Animate Projections
animate_click ==
    /\ page # NoPage
    /\ Len(page.intervals) < MaxClicks
    /\ page' = animateProjections(page)
    /\ UNCHANGED <<entry, side_effect, tu, fx, mn, requests, dist, calls, call>>

\* the callback that never calls clearInterval
IntervalCallback_uncleared(p, i) ==
    LET currentYear == p.intervals[i].currentYear
    IN IF currentYear <= endYear
       THEN updateSLR([p EXCEPT !.yr = currentYear,
                                !.intervals[i].currentYear = currentYear + 1])
       ELSE p

\* the callback of interval i: the slider is set to currentYear and the text
\* updated, or the interval is cleared
IntervalCallback(p, i) ==
    LET currentYear == p.intervals[i].currentYear
    IN IF currentYear <= endYear
       THEN updateSLR([p EXCEPT !.yr = currentYear,
                                !.intervals[i].currentYear = currentYear + 1])
       ELSE [p EXCEPT !.intervals[i].cleared = TRUE]

\* the timer of interval i fires
interval_tick(i) ==
    /\ page # NoPage
    /\ i \in DOMAIN page.intervals
    /\ ~page.intervals[i].cleared
    /\ page' = IntervalCallback(page, i)
    /\ UNCHANGED <<entry, side_effect, tu, fx, mn, requests, dist, calls, call>>

\* the functions the tests call with arguments of their own
DirectCalls ==
    {"_parse_nsidc_daily_csv", "html_builder.build_html", "fmt_num", "fetch_nsidc_arctic_daily",
     "fetch_noaa_ncei_ohc_latest", "pipeline twice"}

Entries == {"try_urls", "main"} \cup Fetchers \cup DirectCalls

\* the arguments of a direct call
Arguments(fn) ==
    IF fn = "_parse_nsidc_daily_csv" THEN ParseNsidcTexts
    ELSE IF fn = "fmt_num" THEN FmtNumArguments
    ELSE IF fn = "fetch_nsidc_arctic_daily" THEN PatchedNsidcTexts
    ELSE IF fn = "fetch_noaa_ncei_ohc_latest" THEN PatchedOhcTexts
    ELSE IF fn = "pipeline twice" THEN TwoRuns
    ELSE RenderContexts

Init ==
    /\ entry \in Entries
    /\ side_effect \in (IF entry = "main" THEN SUBSET Patchable ELSE {{}})
    /\ tu \in (IF entry = "try_urls"
               THEN {TuCall(urls, TRY_TIMEOUT, binary, 0) :
                       urls \in SeqsUpTo(TestUrls, MaxUrls), binary \in BOOLEAN}
               ELSE {TuIdle})
    /\ fx = IF entry \in Fetchers THEN FxCall(entry) ELSE FxIdle
    /\ mn = IF entry = "main" THEN [MnIdle EXCEPT !.pc = "fetch"] ELSE MnIdle
    /\ requests = <<>>
    /\ dist \in {[f \in Files |-> NoFile], [f \in Files |-> OldFile]}
    /\ calls = [c \in Counted |-> IF c = entry THEN 1 ELSE 0]
    /\ call \in (IF entry \in DirectCalls
                 THEN {DirectCall(entry, arg) : arg \in Arguments(entry)}
                 ELSE {CallIdle})
    /\ page = NoPage

Next ==
    \/ try_urls_get
    \/ try_urls_raise
    \/ fetch_noaa_co2_monthly
    \/ fetch_met_eireann_warnings
    \/ fetch_forest_fires_data
    \/ fetch_psmsl_dublin_note
    \/ fetch_nsidc_arctic_daily_next
    \/ fetch_nsidc_arctic_daily_body
    \/ fetch_nsidc_arctic_daily_placeholder
    \/ fetch_noaa_ncei_ohc_latest_next
    \/ fetch_noaa_ncei_ohc_latest_body
    \/ fetch_noaa_ncei_ohc_latest_placeholder
    \/ main_call
    \/ main_resume
    \/ main_build_html
    \/ main_write_text
    \/ parse_nsidc_daily_csv_call
    \/ html_builder_build_html_call
    \/ fmt_num_call
    \/ fetch_nsidc_arctic_daily_patched
    \/ fetch_noaa_ncei_ohc_latest_patched
    \/ pipeline_first_run
    \/ pipeline_second_run

Spec == Init /\ [][Next]_vars

\* the written page opened in a browser
InitUI ==
    /\ entry = "index.html"
    /\ side_effect = {}
    /\ tu = TuIdle
    /\ fx = FxIdle
    /\ mn = MnIdle
    /\ requests = <<>>
    /\ dist \in {[f \in Files |-> OldFile]}
    /\ calls = [c \in Counted |-> 0]
    /\ call = CallIdle
    /\ page = Loaded

NextUI ==
    \/ tab_click
    \/ scn_change
    \/ yr_input
    \/ animate_click
    \/ \E i \in 1..MaxClicks : interval_tick(i)

SpecUI == InitUI /\ [][NextUI]_vars

\* a timer that was set and not cleared fires again and again: the browser
\* runs the callback of setInterval every 200 ms
LiveUI == SpecUI /\ \A i \in 1..MaxClicks : WF_vars(interval_tick(i))

-----------------------------------------------------------------------------
(* Properties of try_urls.                                                 *)

\* the requests the current call of try_urls has issued
TuRequests == Slice(requests, tu.first, Len(requests))

\* the contents try_urls can hand back for a URL: the bytes of a response
\* when binary, its text otherwise
TuContents(url, binary) ==
    {IF binary THEN Response(b).content ELSE Response(b).text : b \in Bodies(url)}

\* C1: try_urls requests its URLs in list order, one request per entry of the
\* list; an entry is requested only when every earlier one failed; at the
\* first success it returns (that URL, its content) and requests nothing
\* more; the content is the response bytes when binary, else the text.
C1_TryUrlsFirstSuccess ==
    tu.pc # "idle" =>
       /\ Len(TuRequests) = Len(tu.tried)
       /\ Len(tu.tried) <= Len(tu.urls)
       /\ \A k \in 1..Len(tu.tried) :
             /\ TuRequests[k].url = tu.urls[k]
             /\ k < Len(tu.tried) => tu.tried[k] # None
       /\ tu.pc = "loop" => (tu.i = Len(tu.tried) + 1 /\ \A k \in 1..Len(tu.tried) : tu.tried[k] # None)
       /\ tu.pc = "returned" =>
             /\ tu.tried # <<>>
             /\ tu.tried[Len(tu.tried)] = None
             /\ tu.ret[1] = tu.urls[Len(tu.tried)]
             /\ tu.ret[2] \in TuContents(tu.ret[1], tu.binary)
             /\ tu.ret[2][1] = (IF tu.binary THEN "bytes" ELSE "str")
             /\ ~ENABLED try_urls_get

\* the second of three URLs answered, as bytes: the third is never requested
C1_Witness ==
    /\ entry = "try_urls"
    /\ tu.pc = "returned"
    /\ tu.binary
    /\ Len(tu.urls) = 3
    /\ Len(tu.tried) = 2
    /\ Len(requests) = 2

C3_TryUrlsEmpty ==
    (entry = "try_urls" /\ tu.urls = <<>>) =>
       /\ requests = <<>>
       /\ tu.pc \in {"loop", "raised"}
       /\ tu.pc = "loop" => ENABLED try_urls_raise
       /\ tu.pc = "raised" => tu.ret = [type |-> "RuntimeError", msg |-> "No URLs tried"]

\* the call with the empty list has raised
C3_Witness ==
    /\ entry = "try_urls"
    /\ tu.urls = <<>>
    /\ tu.pc = "raised"
    /\ tu.ret.type = "RuntimeError"

-----------------------------------------------------------------------------
(* Properties of the fetchers.                                             *)

\* the fetchers that download
NetworkFetchers == {"co2", "warnings", "nsidc", "ohc", "fires"}

\* the record a fetcher returns for a source it could not read
FetcherPlaceholder(name) ==
    CASE name = "warnings" -> WarningsPlaceholder
      [] name = "nsidc" -> NsidcPlaceholder
      [] name = "ohc" -> OhcPlaceholder
      [] name = "fires" -> FiresPlaceholder
      [] OTHER -> [year |-> NA, month |-> PyInt(0), ppm |-> NaN, chart |-> "",
                   source |-> CO2_SOURCE]

\* the call of a fetcher is over and none of its downloads succeeded
AllDownloadsFailed ==
    /\ fx.name \in NetworkFetchers
    /\ fx.pc \in {"returned", "raised"}
    /\ ~fx.got
    /\ fx.ret # [type |-> "Exception", msg |-> fx.name]

\* C4 as stated: each of the five network fetchers returns its placeholder,
\* and raises nothing, when every candidate URL fails.
C4_AllFiveReturnPlaceholder ==
    AllDownloadsFailed =>
       /\ fx.pc = "returned"
       /\ fx.ret = FetcherPlaceholder(fx.name)

\* C4: the warnings, sea-ice, ocean-heat and fires fetchers return exactly
\* their placeholder, and raise nothing, when every candidate URL fails; the
\* CO2 fetcher returns nothing then: it raises.
C4_FourReturnPlaceholder ==
    AllDownloadsFailed =>
       IF fx.name = "co2" THEN fx.pc = "raised"
       ELSE /\ fx.pc = "returned"
            /\ fx.ret = FetcherPlaceholder(fx.name)
            /\ Len(requests) >= (CASE fx.name = "nsidc" -> 4 [] fx.name = "ohc" -> 3 [] OTHER -> 1)

\* the sea-ice fetcher is back after its four candidates failed to download
C4_Witness ==
    /\ entry = "nsidc"
    /\ AllDownloadsFailed
    /\ Len(requests) = 4
    /\ fx.ret = NsidcPlaceholder

\* C5: when http_get raises in fetch_noaa_co2_monthly, the fetcher raises
\* that same exception and returns no record.
C5_Co2Propagates ==
    (fx.name = "co2" /\ AllDownloadsFailed) =>
       /\ fx.pc = "raised"
       /\ fx.ret.type \in {"ConnectionError", "HTTPError"}
       /\ fx.ret.msg = CO2_URL
       /\ fx.ret.req = Len(requests)
       /\ requests[Len(requests)].url = CO2_URL

\* the CO2 download got a bad status and the fetcher raised HTTPError
C5_Witness ==
    /\ entry = "co2"
    /\ fx.pc = "raised"
    /\ ~fx.got
    /\ fx.ret.type = "HTTPError"

-----------------------------------------------------------------------------
(* Properties of main.                                                     *)

C7_SixFetchersSixKeys ==
    (entry = "main" /\ mn.pc \in {"write", "done"}) =>
       /\ \A name \in Fetchers : calls[name] = 1
       /\ DOMAIN mn.html[2] = {"co2", "warnings", "dublin", "nsidc", "ohc", "fires"}

\* C8: when build_html raises, main raises that exception and index.html is
\* not written.
C8_BuildHtmlErrorPropagates ==
    (entry = "main" /\ "build_html" \in side_effect) =>
       /\ mn.pc \notin {"write", "done"}
       /\ calls["write_text"] = 0
       /\ dist[INDEX_HTML] \in {NoFile, OldFile}
       /\ calls["build_html"] = 1 =>
             /\ mn.pc = "raised"
             /\ mn.exc = [type |-> "Exception", msg |-> "build_html"]

\* build_html raised after five fetchers returned, and main raised
C8_Witness ==
    /\ entry = "main"
    /\ side_effect = {"build_html"}
    /\ mn.pc = "raised"
    /\ calls["build_html"] = 1
    /\ DOMAIN mn.locals = CtxKeys

-----------------------------------------------------------------------------
(* Properties of the records.                                              *)


\* no field of the record is a sentinel
Populated(name, rec) ==
    CASE name = "co2" ->
           /\ rec \in Co2Records
           /\ rec.year[1] = "int" /\ rec.month[1] = "int" /\ rec.ppm[1] = "float"
           /\ rec.month # PyInt(0)
           /\ rec.chart = CO2_CHART /\ rec.source = CO2_SOURCE
      [] name = "warnings" ->
           /\ rec \in WarningsRecords
           /\ rec.count[1] = "int"
           /\ Len(rec.titles) <= rec.count[2]
           /\ rec.source = WARNINGS_SOURCE
      [] name = "nsidc" ->
           /\ rec \in NsidcRecords
           /\ rec.latest.date # NA /\ rec.latest.extent_mkm2[1] = "float"
           /\ rec.chart = NSIDC_CHART /\ rec.source = NSIDC_SOURCE
      [] name = "ohc" ->
           /\ rec \in OhcRecords
           /\ rec.year[1] = "int" /\ rec.value[1] = "float"
           /\ rec.units = OHC_UNITS /\ rec.source = OHC_SOURCE
      [] name = "fires" ->
           /\ rec \in FiresRecords
           /\ rec.count[1] = "int"
           /\ rec.description # FiresPlaceholder.description
      [] OTHER -> rec = DublinRecord

\* C9: every record a fetcher returns, and every record main holds after a
\* call, is fully populated from one response or is exactly the placeholder
\* of its source: none mixes populated fields with sentinels.
C9_PopulatedOrPlaceholder ==
    /\ fx.pc = "returned" =>
          \/ Populated(fx.name, fx.ret)
          \/ fx.name # "dublin" /\ fx.ret = FetcherPlaceholder(fx.name)
    /\ \A name \in DOMAIN mn.locals :
          \/ Populated(name, mn.locals[name])
          \/ name # "dublin" /\ mn.locals[name] = FetcherPlaceholder(name)

\* main holds the CO2 placeholder after the saving of the CO2 chart failed
\* part way, and a sea-ice and an ocean-heat record read from a
\* later candidate
C9_Witness ==
    /\ entry = "main"
    /\ mn.pc = "build"
    /\ dist[CO2_CHART] = Truncated
    /\ mn.locals["co2"] = FetcherPlaceholder("co2")
    /\ mn.locals["nsidc"] # NsidcPlaceholder
    /\ mn.locals["ohc"] # OhcPlaceholder
    /\ Len(requests) >= 6

\* C10: fetch_nsidc_arctic_daily tries its four candidates in the listed
\* order, the .gz ones as bytes it decompresses, the others as text; a
\* candidate that fails at any step is followed by the next; the first that
\* completes gives the record and no later one is requested; the placeholder
\* is returned only after all four failed; nothing is raised.
C10_NsidcFallback ==
    entry = "nsidc" =>
       /\ fx.pc # "raised"
       /\ Len(requests) <= Len(NsidcCandidates)
       /\ \A k \in 1..Len(requests) : requests[k].url = NsidcCandidates[k]
       /\ tu.pc # "idle" =>
             /\ fx.pc = "await"
             /\ tu.urls = <<NsidcCandidates[fx.i]>>
             /\ tu.binary = EndsWithGz(NsidcCandidates[fx.i])
       /\ tu.pc = "returned" =>
             tu.ret[2][1] = (IF EndsWithGz(NsidcCandidates[fx.i]) THEN "bytes" ELSE "str")
       /\ fx.pc = "called" =>
             /\ Len(requests) = fx.i - 1
             /\ ENABLED (fetch_nsidc_arctic_daily_next \/ fetch_nsidc_arctic_daily_placeholder)
       /\ fx.pc = "await" => Len(requests) \in {fx.i - 1, fx.i}
       /\ fx.pc = "returned" =>
             IF fx.ret = NsidcPlaceholder
             THEN Len(requests) = Len(NsidcCandidates) /\ fx.i = Len(NsidcCandidates) + 1
             ELSE /\ Len(requests) = fx.i
                  /\ fx.got
                  /\ fx.ret \in NsidcRecordsFrom(NsidcCandidates[fx.i])
                  /\ dist[NSIDC_CHART][1] = "png"

\* three candidates failed and the fourth, a .gz one, gave the record
C10_Witness ==
    /\ entry = "nsidc"
    /\ fx.pc = "returned"
    /\ fx.i = 4
    /\ fx.ret # NsidcPlaceholder
    /\ Len(requests) = 4

-----------------------------------------------------------------------------
(* Properties of the ocean-heat fetcher.                                   *)

\* C11: fetch_noaa_ncei_ohc_latest tries its three candidates in the listed
\* order, as text; a candidate that fails to download or to parse, or that
\* has no numeric column besides the year, is followed by the next; the first
\* that yields a row gives the record and no later one is requested; the
\* placeholder, with the source of the success path, is returned only after
\* all three failed; nothing is raised.
C11_OhcFallback ==
    entry = "ohc" =>
       /\ fx.pc # "raised"
       /\ Len(requests) <= Len(OhcCandidates)
       /\ \A k \in 1..Len(requests) : requests[k].url = OhcCandidates[k]
       /\ tu.pc # "idle" =>
             /\ fx.pc = "await"
             /\ tu.urls = <<OhcCandidates[fx.i]>>
             /\ ~tu.binary
       /\ fx.pc = "called" =>
             /\ Len(requests) = fx.i - 1
             /\ ENABLED (fetch_noaa_ncei_ohc_latest_next \/ fetch_noaa_ncei_ohc_latest_placeholder)
       /\ fx.pc = "await" => Len(requests) \in {fx.i - 1, fx.i}
       /\ fx.pc = "returned" =>
             IF fx.ret.year = NA
             THEN /\ fx.ret = [year |-> NA, value |-> NA, units |-> "", source |-> OHC_SOURCE]
                  /\ Len(requests) = Len(OhcCandidates)
                  /\ fx.i = Len(OhcCandidates) + 1
             ELSE /\ Len(requests) = fx.i
                  /\ fx.got
                  /\ fx.ret \in OhcRecords
                  /\ fx.ret.source = OHC_SOURCE

\* two candidates were skipped, the second after its download, and the third
\* gave the record
C11_Witness ==
    /\ entry = "ohc"
    /\ fx.pc = "returned"
    /\ fx.i = 3
    /\ fx.ret # OhcPlaceholder
    /\ Len(requests) = 3

-----------------------------------------------------------------------------
(* Properties of the warnings and fires fetchers.                          *)

\* C12: fetch_met_eireann_warnings and fetch_forest_fires_data never raise:
\* a failure of the download or of the parsing gives the placeholder, with
\* count "N/A" (and no titles, or the description of unavailable data), and
\* the source of the record is the same constant on both paths.
C12_WarningsFiresNeverRaise ==
    (fx.name \in {"warnings", "fires"} \ side_effect /\ fx.pc # "called") =>
       /\ fx.pc = "returned"
       /\ fx.ret.source = (IF fx.name = "warnings" THEN "https://www.met.ie/warnings"
                           ELSE "https://firms.modaps.eosdis.nasa.gov/")
       /\ ~fx.got => fx.ret.count = NA
       /\ fx.ret.count # NA => (fx.got /\ fx.ret.count[1] = "int")
       /\ fx.ret.count = NA =>
             IF fx.name = "warnings"
             THEN fx.ret = [count |-> NA, titles |-> <<>>, source |-> "https://www.met.ie/warnings"]
             ELSE fx.ret = [count |-> NA, source |-> "https://firms.modaps.eosdis.nasa.gov/",
                            description |-> "Fire data temporarily unavailable"]
       /\ fx.name = "warnings" => fx.ret \in WarningsRecords \cup {WarningsPlaceholder}
       /\ fx.name = "fires" => fx.ret \in FiresRecords \cup {FiresPlaceholder}

\* the warnings were downloaded but could not be parsed
C12_Witness ==
    /\ entry = "warnings"
    /\ fx.pc = "returned"
    /\ fx.got
    /\ fx.ret.count = NA

-----------------------------------------------------------------------------
(* Properties of the CO2 reading.                                          *)

\* C13: the record of fetch_noaa_co2_monthly holds the year, month and
\* average of the last data line of the file, in file order, whose average
\* is neither empty nor -99.99; a last line with average -99.99 is never the
\* reading.
C13_Co2LatestReading ==
    (fx.name = "co2" /\ fx.pc = "returned") =>
       /\ fx.payload # None
       /\ fx.payload[2].kind = "csv"
       /\ LET data == SelectSeq(fx.payload[2].lines, LAMBDA ln : ln.kind = "cells")
              known == SelectSeq(data, LAMBDA ln : /\ ln.cells[4] # <<"nan">>
                                                   /\ ln.cells[4] # <<"num", -9999>>)
          IN /\ known # <<>>
             /\ fx.ret.year = <<"int", known[Len(known)].cells[1][2] \div 100>>
             /\ fx.ret.month = <<"int", known[Len(known)].cells[2][2] \div 100>>
             /\ fx.ret.ppm = <<"float", known[Len(known)].cells[4][2]>>
             /\ fx.ret.ppm # <<"float", -9999>>

\* the last line of the file has average -99.99 and the reading is the
\* month before
C13_Witness ==
    /\ entry = "co2"
    /\ fx.pc = "returned"
    /\ fx.payload[2] = Co2TrailingMissing
    /\ fx.ret.month = PyInt(11)
    /\ fx.ret.ppm = PyFloat(42400)

-----------------------------------------------------------------------------
(* Properties of _parse_nsidc_daily_csv.                                   *)

\* the non-blank lines of the text the parser was called with
ArgLines == SelectSeq(call.arg[2].lines, LAMBDA ln : ln.kind # "blank")

\* line k of ArgLines begins with "year" or "yyyy", whatever the case
ArgHeaderAt(k) ==
    /\ ArgLines[k].kind = "cells"
    /\ ArgLines[k].cells[1] \in {TWord.Year, TWord.YYYY}

\* the parser was called with a file that has a header line
ArgHasHeader ==
    /\ call.fn = "_parse_nsidc_daily_csv"
    /\ call.arg[2].kind = "csv"
    /\ \E k \in 1..Len(ArgLines) : ArgHeaderAt(k)

\* the index of the first header line
ArgHeader == CHOOSE k \in 1..Len(ArgLines) : ArgHeaderAt(k) /\ \A j \in 1..(k - 1) : ~ArgHeaderAt(j)

\* the lines after the header
ArgData == Slice(ArgLines, ArgHeader + 1, Len(ArgLines))

\* the header names a year, a month, a day and an extent
ArgColumnsResolve ==
    /\ ArgLines[ArgHeader].cells[2] \in {TWord.Month, TWord.MM}
    /\ ArgLines[ArgHeader].cells[3] \in {TWord.Day, TWord.DD}
    /\ ArgLines[ArgHeader].cells[4] \in {TWord.Extent, TWord.EXTENT}

\* the data lines whose year, month and day are a calendar date
ArgDated ==
    SelectSeq(ArgData, LAMBDA ln : ValidDate(ln.cells[1][2] \div 100, ln.cells[2][2] \div 100,
                                             ln.cells[3][2] \div 100))

-----------------------------------------------------------------------------
(* A header whose columns do not resolve.                                  *)

\* the header lines of a document: the lines that begin with "year" or "yyyy"
HeaderLines(doc) ==
    IF doc.kind # "csv" THEN <<>>
    ELSE SelectSeq(doc.lines, LAMBDA ln : ln.kind = "cells" /\ ln.cells # <<>>
                                          /\ ln.cells[1] \in {TWord.Year, TWord.YYYY})

\* the header of the document has no column for the month, the day or the
\* extent (its first column is the year)
Unresolvable(doc) ==
    /\ HeaderLines(doc) # <<>>
    /\ \E names \in {{TWord.Month, TWord.MM, TWord.Missing}, {TWord.Day, TWord.DD},
                      {TWord.Extent, TWord.EXTENT}} :
          \A c \in 1..Len(HeaderLines(doc)[1].cells) : HeaderLines(doc)[1].cells[c] \notin names

\* the document of a payload, text or bytes
PayloadDoc(payload) == IF payload[1] = "bytes" THEN payload[2].doc ELSE payload[2]

UnexpectedColumns == Exc("ValueError", "Unexpected NSIDC CSV columns")

\* C15: when the header has no column that resolves as year, month, day or
\* extent, _parse_nsidc_daily_csv raises ValueError("Unexpected NSIDC CSV
\* columns"); fetch_nsidc_arctic_daily, whose candidate gave such a file,
\* returns nothing from it and stands before the next candidate, or has
\* returned the placeholder when the candidate was the last.
C15_UnresolvedColumns ==
    /\ (call.fn = "_parse_nsidc_daily_csv" /\ call.pc # "called" /\ Unresolvable(call.arg[2])) =>
          /\ call.pc = "raised"
          /\ call.ret = UnexpectedColumns
    /\ (fx.name = "nsidc" /\ fx.payload # None
          /\ Unresolvable(PayloadDoc(fx.payload))) =>
          /\ fx.i \in 2..(Len(NsidcCandidates) + 1)
          /\ entry = "nsidc" => Len(requests) = fx.i - 1
          /\ \/ /\ fx.pc = "called"
                /\ fx.ret = None
                /\ ENABLED (fetch_nsidc_arctic_daily_next \/ fetch_nsidc_arctic_daily_placeholder)
             \/ /\ fx.pc = "returned"
                /\ fx.ret = NsidcPlaceholder
                /\ fx.i = Len(NsidcCandidates) + 1

\* the first candidate gave a file without an extent column and the fetcher
\* stands before the second
C15_Witness ==
    /\ entry = "nsidc"
    /\ fx.pc = "called"
    /\ fx.i = 2
    /\ fx.payload # None
    /\ fx.payload[1] = "str"
    /\ Unresolvable(PayloadDoc(fx.payload))
    /\ _parse_nsidc_daily_csv(fx.payload).exc = UnexpectedColumns

-----------------------------------------------------------------------------
(* The warnings counted and the titles kept.                               *)

\* the items of the warnings list the fetcher read: none when the key is
\* missing
WarningItems ==
    IF fx.payload[2].data[2] = Absent THEN <<>> ELSE fx.payload[2].data[2][2]

\* the positions of the items whose status is "active" in some case
ActiveItems ==
    {k \in 1..Len(WarningItems) : WarningItems[k][2].status \in {JWord.Active, JWord.ACTIVE}}

\* those of them that have a title
TitledItems ==
    {k \in ActiveItems : WarningItems[k][2].title \in {JWord.Storm, JWord.Rain, JWord.Wind,
                                                       JWord.Snow}}

\* C16: fetch_met_eireann_warnings on success returns as count the number
\* of all the items whose status is "active" in whatever case, and as titles
\* the first up to three non-empty titles of those items in list order; so
\* there are at most three titles and no more titles than the count.
C16_WarningsCountAndTitles ==
    (fx.name = "warnings" /\ fx.pc = "returned" /\ fx.ret # WarningsPlaceholder) =>
       /\ fx.payload # None
       /\ fx.payload[2].kind = "json"
       /\ fx.ret.count = PyInt(Cardinality(ActiveItems))
       /\ Len(fx.ret.titles) = (IF Cardinality(TitledItems) < 3 THEN Cardinality(TitledItems)
                                ELSE 3)
       /\ Len(fx.ret.titles) <= fx.ret.count[2]
       /\ \A j \in 1..Len(fx.ret.titles) :
             \E k \in TitledItems :
                /\ Cardinality({m \in TitledItems : m <= k}) = j
                /\ fx.ret.titles[j] = WarningItems[k][2].title

\* five active warnings in two spellings, four of them titled: three titles
C16_Witness ==
    /\ fx.name = "warnings"
    /\ fx.pc = "returned"
    /\ fx.ret # WarningsPlaceholder
    /\ Cardinality(ActiveItems) = 5
    /\ Cardinality(TitledItems) = 4
    /\ Len(WarningItems) = 7
    /\ Len(fx.ret.titles) = 3

-----------------------------------------------------------------------------
(* The fires counted.                                                      *)

\* the lines of the body the fires fetcher read; a page that is no CSV is
\* one line
FiresLines ==
    IF fx.payload[2].kind = "csv" THEN fx.payload[2].lines ELSE <<Text(<<"<">>)>>

\* the positions of its lines that are not blank
FiresInk == {k \in 1..Len(FiresLines) : FiresLines[k].kind # "blank"}

\* the number of lines of the stripped body: from the first line that is
\* not blank to the last one
FiresStripped ==
    IF FiresInk = {} THEN 0
    ELSE (CHOOSE b \in FiresInk : \A k \in FiresInk : k <= b)
         - (CHOOSE a \in FiresInk : \A k \in FiresInk : a <= k) + 1

\* C17: fetch_forest_fires_data on success returns as count the number of
\* lines of the stripped body less one when there are at least two lines,
\* and 0 when the body is empty or only a header; the count is never
\* negative and blank or repeated lines inside the body count as rows.
C17_FiresCount ==
    (fx.name = "fires" /\ fx.pc = "returned" /\ fx.ret # FiresPlaceholder) =>
       /\ fx.payload # None
       /\ fx.ret.count[1] = "int"
       /\ fx.ret.count[2] >= 0
       /\ fx.ret.count[2] = (IF FiresStripped >= 2 THEN FiresStripped - 1 ELSE 0)

\* a body of seven lines, blank at both ends, one blank and one repeated
\* line inside: five lines stripped, four fires
C17_Witness ==
    /\ fx.name = "fires"
    /\ fx.pc = "returned"
    /\ fx.payload # None
    /\ Len(FiresLines) = 7
    /\ FiresStripped = 5
    /\ Cardinality(FiresInk) = 4
    /\ fx.ret.count = PyInt(4)

-----------------------------------------------------------------------------
(* The tide-gauge note.                                                    *)

\* C18: fetch_psmsl_dublin_note makes no network call and writes no file,
\* and returns the same record on every call: the link of the PSMSL station
\* and the fixed note.
C18_DublinConstant ==
    [][(fx.name = "dublin" /\ fx.pc = "called") =>
          /\ requests' = requests
          /\ dist' = dist
          /\ tu' = tu /\ tu.pc = "idle"
          /\ fx'.pc = "returned"
          /\ fx'.ret = [link |-> "https://psmsl.org/data/obtaining/stations/432.php",
                        note |-> "Dublin tide-gauge shows a gradual long-term rise."]]_vars

\* the note returned to main after other fetchers have used the network
C18_Witness ==
    /\ entry = "main"
    /\ fx.name = "dublin"
    /\ fx.pc = "returned"
    /\ fx.ret.note = "Dublin tide-gauge shows a gradual long-term rise."
    /\ Len(requests) >= 1

-----------------------------------------------------------------------------
(* Properties of the rendering.                                            *)

\* C19: build_html only formats its context: the step that runs it, in
\* html_builder.py called with a context or in build.py called by main,
\* issues no HTTP request, writes no file and leaves the context and every
\* record in it as they were.
C19_BuildHtmlPure ==
    [][/\ (call.fn = "html_builder.build_html" /\ call.pc = "called") =>
             /\ requests' = requests
             /\ dist' = dist
             /\ call'.arg = call.arg
             /\ call'.pc \in {"returned", "raised"}
       /\ mn.pc = "build" =>
             /\ requests' = requests
             /\ dist' = dist
             /\ mn'.locals = mn.locals
             /\ mn'.pc \in {"write", "raised"}]_vars

\* a page was rendered from a context with a CO2 chart, and nothing was
\* requested or written
C19_Witness ==
    /\ call.fn = "html_builder.build_html"
    /\ call.pc = "returned"
    /\ call.arg["co2"].chart = CO2_CHART
    /\ call.ret.details_tiles.co2_chart = CO2_CHART
    /\ requests = <<>>
    /\ \A f \in Files : dist[f] \in {NoFile, OldFile}

\* the six sources of the context of html_builder.build_html
SixKeys == {"co2", "warnings", "dublin", "nsidc", "ohc", "fires"}

\* C20 as stated: build_html returns a page without raising for every
\* context whose six records are populated or placeholders, in any
\* combination; a headline value that is NaN or "N/A" is rendered as the
\* dash, and an empty sea-ice chart path as "Chart unavailable this run.".
C20_PlaceholdersRendered ==
    (call.fn = "html_builder.build_html" /\ call.pc # "called" /\ DOMAIN call.arg = SixKeys) =>
       /\ call.pc = "returned"
       /\ call.arg["co2"].ppm = NaN =>
             /\ call.ret.simple_tiles.co2_ppm = DASH
             /\ call.ret.details_tiles.co2_ppm = DASH
       /\ call.arg["nsidc"].latest.extent_mkm2 = NaN =>
             /\ call.ret.simple_tiles.nsidc_val = DASH
             /\ call.ret.details_tiles.nsidc_val = DASH
       /\ call.arg["warnings"].count = NA => call.ret.details_tiles.warn_count = DASH
       /\ call.arg["fires"].count = NA =>
             /\ call.ret.simple_tiles.fires_count = DASH
             /\ call.ret.details_tiles.fires_count = DASH
       /\ call.arg["ohc"].value = NA => call.ret.details_tiles.ohc_value = DASH
       /\ call.arg["nsidc"].chart = "" =>
             call.ret.details_tiles.nsidc_chart
                = "<div class='sub'>Chart unavailable this run.</div>"

\* what the code does keep of C20: no context of six records makes
\* build_html raise, and the empty chart path gives the notice
C20_NeverRaises ==
    (call.fn = "html_builder.build_html" /\ call.pc # "called" /\ DOMAIN call.arg = SixKeys) =>
       /\ call.pc = "returned"
       /\ call.arg["nsidc"].chart = "" =>
             call.ret.details_tiles.nsidc_chart
                = "<div class='sub'>Chart unavailable this run.</div>"
       /\ call.arg["nsidc"].chart # "" =>
             call.ret.details_tiles.nsidc_chart = <<"img", call.arg["nsidc"].chart>>

-----------------------------------------------------------------------------
(* C21: the ocean-heat record in the rendered page.                        *)

\* sub occurs in text, both sequences of characters
HasSub(text, sub) ==
    \E k \in 0..(Len(text) - Len(sub)) : \A j \in 1..Len(sub) : text[k + j] = sub[j]

\* the page was rendered from a context whose ocean-heat record is
\* {year: 2023, value: 15.2, units: "J x 10^22"}
OhcSample ==
    /\ call.fn = "html_builder.build_html"
    /\ call.pc = "returned"
    /\ call.arg["ohc"].year = PyInt(2023)
    /\ call.arg["ohc"].value = PyFloat(1520)
    /\ call.arg["ohc"].units = OHC_UNITS

\* the numbers the rendered page shows
PageNumbers ==
    {call.ret.simple_tiles.co2_ppm, call.ret.simple_tiles.nsidc_val,
     call.ret.simple_tiles.fires_count, call.ret.details_tiles.co2_ppm,
     call.ret.details_tiles.co2_date, call.ret.details_tiles.warn_count,
     call.ret.details_tiles.nsidc_val, call.ret.details_tiles.nsidc_date,
     call.ret.details_tiles.ohc_value, call.ret.details_tiles.ohc_year,
     call.ret.details_tiles.fires_count}

\* C21 as stated: the ocean-heat record {year: 2023, value: 15.2} gives a
\* page that contains "15.20", the value with two decimals, and "2023".
C21_TwoDecimals ==
    OhcSample =>
       /\ \E t \in PageNumbers : HasSub(t, <<"1", "5", ".", "2", "0">>)
       /\ \E t \in PageNumbers : HasSub(t, <<"2", "0", "2", "3">>)

\* C21, amended: the ocean-heat card shows the value as str() gives it, the
\* shortest decimal that reads back as the value ("15.2" for 15.2), then the
\* units, and the year in full ("2023"); this holds of every ocean-heat
\* record a fetcher returns.
C21_OhcCard ==
    (call.fn = "html_builder.build_html" /\ call.pc = "returned") =>
       /\ OhcSample =>
             /\ call.ret.details_tiles.ohc_value = <<"1", "5", ".", "2">>
             /\ call.ret.details_tiles.ohc_year = <<"2", "0", "2", "3">>
       /\ call.arg["ohc"] \in OhcRecords =>
             /\ call.ret.details_tiles.ohc_value = StrOf(call.arg["ohc"].value)
             /\ call.ret.details_tiles.ohc_year = IntText(call.arg["ohc"].year[2])
             /\ call.ret.details_tiles.ohc_units = OHC_UNITS

\* the sample record was rendered, and no number of the page reads "15.20"
C21_Witness ==
    /\ OhcSample
    /\ call.ret.details_tiles.ohc_value = <<"1", "5", ".", "2">>
    /\ \A t \in PageNumbers : ~HasSub(t, <<"1", "5", ".", "2", "0">>)

-----------------------------------------------------------------------------
(* C23: fmt_num.                                                           *)

\* the characters of text after its decimal point, none without a point
DecimalsOf(text) ==
    IF \E k \in 1..Len(text) : text[k] = "."
    THEN Len(text) - (CHOOSE k \in 1..Len(text) : text[k] = ".")
    ELSE 0

\* fmt_num was called and is over
FmtNumDone == call.fn = "fmt_num" /\ call.pc # "called"

\* the placeholder the caller of fmt_num is to get: the em dash, unless the
\* call passed another default
FmtNumPlaceholder == IF call.arg.default = Omitted THEN DASH ELSE call.arg.default

\* what fmt_num does with a number: an int as it is, a float with nd decimals
FmtNumNumbers ==
    /\ call.arg.val[1] = "int" =>
          /\ call.ret = IntText(call.arg.val[2])
          /\ DecimalsOf(call.ret) = 0
    /\ call.arg.val[1] = "float" =>
          /\ DecimalsOf(call.ret) = call.arg.nd
          /\ call.arg.nd = 2 => call.ret = FixedText(call.arg.val[2], 2)
          /\ call.arg.val = PyFloat(4250) =>
                call.ret = (IF call.arg.nd = 2 THEN <<"4", "2", ".", "5", "0">>
                            ELSE <<"4", "2">>)
          /\ call.arg.val = PyFloat(4257) =>
                call.ret = (IF call.arg.nd = 2 THEN <<"4", "2", ".", "5", "7">>
                            ELSE <<"4", "3">>)

\* C23 as stated: fmt_num never raises; for None, NaN and a value that is
\* no number ("invalid", "N/A") it returns the placeholder, the em dash
\* unless another default was passed; an int comes back unchanged, without
\* decimals; any other number with exactly nd decimals.
C23_FmtNum ==
    FmtNumDone =>
       /\ call.pc = "returned"
       /\ call.arg.val \in {PyNone, NaN, PyStr("invalid"), NA} => call.ret = FmtNumPlaceholder
       /\ FmtNumNumbers

\* what fmt_num of utils.py does: as C23, with the default its signature
\* spells for a call that passes none
C23_FmtNumAsCoded ==
    FmtNumDone =>
       /\ call.pc = "returned"
       /\ call.arg.val \in {PyNone, NaN, PyStr("invalid"), NA} =>
             call.ret = (IF call.arg.default = Omitted THEN FMT_DEFAULT ELSE call.arg.default)
       /\ FmtNumNumbers

-----------------------------------------------------------------------------
(* C27: the latest sea-ice row and the rows of the chart.                  *)

\* fetch_nsidc_arctic_daily returned a record read from a file
SeaIceDone ==
    \/ call.fn = "fetch_nsidc_arctic_daily" /\ call.pc = "returned"
          /\ call.ret.record # NsidcPlaceholder
    \/ fx.name = "nsidc" /\ fx.pc = "returned" /\ fx.ret # NsidcPlaceholder

\* the file, the record and the rows plotted of that call
SeaIceDoc ==
    IF call.fn = "fetch_nsidc_arctic_daily" THEN call.arg[2] ELSE PayloadDoc(fx.payload)
SeaIceRecord == IF call.fn = "fetch_nsidc_arctic_daily" THEN call.ret.record ELSE fx.ret
SeaIcePlotted ==
    IF call.fn = "fetch_nsidc_arctic_daily" THEN call.ret.save_png[1].fig
    ELSE dist[NSIDC_CHART][2]

\* the lines of the file that hold numbers: the data rows
SeaIceData ==
    SelectSeq(SeaIceDoc.lines, LAMBDA ln : ln.kind = "cells" /\ ln.cells[1][1] = "num")

\* the year, month and day of a data row are a calendar date and its extent
\* is a number other than -9999
SeaIceRowValid(ln) ==
    /\ ValidDate(ln.cells[1][2] \div 100, ln.cells[2][2] \div 100, ln.cells[3][2] \div 100)
    /\ ln.cells[4][1] = "num"
    /\ ln.cells[4][2] # -999900

\* the (date, extent) of the valid rows among data
SeaIceValid(data) ==
    {<<<<data[k].cells[1][2] \div 100, data[k].cells[2][2] \div 100,
         data[k].cells[3][2] \div 100>>, data[k].cells[4][2]>> :
       k \in {j \in 1..Len(data) : SeaIceRowValid(data[j])}}

\* the latest date and extent of the record are those of the row of valid
\* that has the greatest date
SeaIceLatestOf(valid, record) ==
    \E r \in valid :
       /\ \A q \in valid : DateKey(q[1]) <= DateKey(r[1])
       /\ record.latest.date = DateStr(r[1])
       /\ record.latest.extent_mkm2 = PyFloat(r[2])

\* plotted holds the last up to 365 rows of valid, in date order
SeaIceTailOf(valid, plotted) ==
    /\ Len(plotted) = (IF Cardinality(valid) < 365 THEN Cardinality(valid) ELSE 365)
    /\ \A k \in 1..Len(plotted) : <<plotted[k][1], plotted[k][2][2]>> \in valid
    /\ \A k \in 1..(Len(plotted) - 1) : DateKey(plotted[k][1]) < DateKey(plotted[k + 1][1])
    /\ \A r \in valid :
          DateKey(r[1]) >= DateKey(plotted[1][1]) =>
             \E k \in 1..Len(plotted) : <<plotted[k][1], plotted[k][2][2]>> = r

\* C27: the latest date and extent of the sea-ice record are those of the
\* row with the greatest date among the rows with a valid date and an extent
\* that is not missing (-9999), in whatever order the file has its rows; the
\* chart plots the last up to 365 of those rows, in date order.
C27_LatestAndTail ==
    SeaIceDone =>
       \A valid \in {SeaIceValid(SeaIceData)} :
          /\ valid # {}
          /\ SeaIceLatestOf(valid, SeaIceRecord)
          /\ SeaIceTailOf(valid, SeaIcePlotted)

\* a file of 373 rows, newest first, 366 of them dated and with an extent:
\* the record has the first of these, 2024-12-31, and the chart the 365
\* from 2024-01-02 on
C27_Witness ==
    /\ SeaIceDone
    /\ call.fn = "fetch_nsidc_arctic_daily"
    /\ Len(SeaIceData) = 373
    /\ Cardinality(SeaIceValid(SeaIceData)) = 366
    /\ call.ret.record.latest.date = DateStr(<<2024, 12, 31>>)
    /\ Len(call.ret.save_png[1].fig) = 365
    /\ call.ret.save_png[1].fig[1][1] = <<2024, 1, 2>>

-----------------------------------------------------------------------------
(* C28: the latest ocean-heat row.                                         *)

\* fetch_noaa_ncei_ohc_latest returned a record read from a file
OhcDone ==
    \/ call.fn = "fetch_noaa_ncei_ohc_latest" /\ call.pc = "returned"
          /\ call.ret # OhcPlaceholder
    \/ fx.name = "ohc" /\ fx.pc = "returned" /\ fx.ret # OhcPlaceholder

\* the file and the record of that call
OhcDoc == IF call.fn = "fetch_noaa_ncei_ohc_latest" THEN call.arg[2] ELSE fx.payload[2]
OhcReturned == IF call.fn = "fetch_noaa_ncei_ohc_latest" THEN call.ret ELSE fx.ret

\* the lines of the file that hold cells: the header, then the data rows
OhcTable == SelectSeq(OhcDoc.lines, LAMBDA ln : ln.kind = "cells")

\* the first column named "year", in whatever case, else the first column
OhcYearCol(header) ==
    IF \E c \in 1..Len(header) : header[c] \in {TWord.Year, TWord.YEAR}
    THEN CHOOSE c \in 1..Len(header) :
            /\ header[c] \in {TWord.Year, TWord.YEAR}
            /\ \A b \in 1..(c - 1) : header[b] \notin {TWord.Year, TWord.YEAR}
    ELSE 1

\* the columns other than the year whose cells are numbers or empty
OhcNumericCols(table, ycol) ==
    {c \in 1..Len(table[1].cells) :
       /\ c # ycol
       /\ \A k \in 2..Len(table) :
             c <= Len(table[k].cells) => table[k].cells[c][1] \in {"num", "nan"}}

\* the rows of the table without an empty cell in any of the columns cols
OhcComplete(table, cols) ==
    {k \in 2..Len(table) :
       \A c \in cols : c <= Len(table[k].cells) /\ table[k].cells[c][1] = "num"}

\* the record has the year of row k and its value in column c
OhcRecordOfRow(record, table, ycol, c, k) ==
    /\ record.year = PyInt(table[k].cells[ycol][2] \div 100)
    /\ record.value = PyFloat(table[k].cells[c][2])
    /\ record.units = "J x 10^22"

\* C28: the ocean-heat record has the greatest year among the rows with no
\* missing value in any numeric column other than the year, in whatever
\* order the file has its rows, with the value of that row in the first of
\* those columns and the units "J x 10^22"; the year column is the first
\* whose name starts with "year" in any case, else the first column.  Every
\* such row of a file that gave a record has a year.
C28_OhcLatestRow ==
    OhcDone =>
       \A table \in {OhcTable} :
          \A ycol \in {OhcYearCol(table[1].cells)} :
             \A cols \in {OhcNumericCols(table, ycol)} :
                /\ cols # {}
                /\ \A j \in OhcComplete(table, cols) : table[j].cells[ycol][1] = "num"
                /\ \E k \in OhcComplete(table, cols) :
                      /\ \A j \in OhcComplete(table, cols) :
                            table[j].cells[ycol][2] <= table[k].cells[ycol][2]
                      /\ OhcRecordOfRow(OhcReturned, table, ycol,
                                        CHOOSE c \in cols : \A b \in cols : c <= b, k)

\* the year is the second column and the file has rows for 2024 and 2022
\* that lack a value: the record is that of 2021, a row in the middle of the
\* file, with the value of the first column
C28_Witness ==
    /\ OhcDone
    /\ call.fn = "fetch_noaa_ncei_ohc_latest"
    /\ OhcYearCol(OhcTable[1].cells) = 2
    /\ OhcNumericCols(OhcTable, 2) = {1, 3}
    /\ call.ret.year = PyInt(2021)
    /\ call.ret.value = PyFloat(1500)

-----------------------------------------------------------------------------
(* C29: the order of the steps of main.                                    *)

\* the fetchers main has called so far, and those whose record it holds
MainCalled == {name \in Fetchers : calls[name] > 0}
MainHeld == DOMAIN mn.locals

\* the first n fetchers of main's order
MainFirst(n) == {MainOrder[j] : j \in 1..n}

\* C29: within one run of main the steps are strictly ordered: a fetcher is
\* called only when every fetcher before it has returned or has been
\* replaced by its placeholder, and no fetcher is called twice; build_html
\* is called only after the last fetcher finished, with the records main
\* holds; index.html is written only after build_html returned, and what is
\* written is the string build_html returned.
C29_MainStepsOrdered ==
    entry = "main" =>
       /\ \A name \in Fetchers : calls[name] <= 1
       /\ \E n \in 0..Len(MainOrder) :
             /\ MainHeld = MainFirst(n)
             /\ \/ MainCalled = MainFirst(n) /\ fx.pc = "idle"
                \/ /\ n < Len(MainOrder)
                   /\ MainCalled = MainFirst(n + 1)
                   /\ fx.name = MainOrder[n + 1]
                   /\ mn.pc = "await"
       /\ tu.pc # "idle" => fx.pc = "await"
       /\ calls["build_html"] <= 1
       /\ calls["build_html"] = 1 =>
             /\ MainHeld = MainFirst(Len(MainOrder))
             /\ fx.pc = "idle"
             /\ mn.pc \in {"write", "done", "raised"}
       /\ mn.html # None =>
             /\ calls["build_html"] = 1
             /\ \E now \in Clock : mn.html = build_html(mn.locals, now)
       /\ calls["write_text"] <= calls["build_html"]
       /\ calls["write_text"] = 1 => mn.html # None
       /\ dist[INDEX_HTML] \notin {NoFile, OldFile} =>
             /\ calls["write_text"] = 1
             /\ dist[INDEX_HTML] \in {mn.html, Truncated}
       /\ mn.pc = "done" => dist[INDEX_HTML] = mn.html

\* the run is over: the five fetchers were called in turn, the sea-ice one
\* came back with a record, and the page written is the one build_html
\* returned for the records held
C29_Witness ==
    /\ entry = "main"
    /\ mn.pc = "done"
    /\ MainCalled = MainFirst(Len(MainOrder))
    /\ mn.locals["nsidc"] # NsidcPlaceholder
    /\ \E now \in Clock : dist[INDEX_HTML] = build_html(mn.locals, now)
    /\ Len(requests) >= 4

-----------------------------------------------------------------------------
(* C30: the chart files and the records.                                   *)

\* the chart file of a fetcher that plots
ChartOf(name) == IF name = "co2" THEN CO2_CHART ELSE NSIDC_CHART

\* the fetchers that plot
Plotters == {"co2", "nsidc"}

\* the record of fetcher name, once its call is over: what the fetcher
\* returned, or what main holds for it; none while it runs or after it raised
\* out of a call of its own
ChartRecords(name) ==
    (IF fx.name = name /\ fx.pc = "returned" THEN {fx.ret} ELSE {})
    \cup (IF name \in DOMAIN mn.locals THEN {mn.locals[name]} ELSE {})

\* file f is as it was before the run
Untouched(f) == dist[f] \in {NoFile, OldFile}

\* the fetcher has been called: once, by a step of the run, or within the
\* whole runs of the pipeline, each of which calls every fetcher
FetcherCalled(name) == calls[name] = 1 \/ (call.fn = "pipeline twice" /\ call.pc # "called")

\* a chart file is touched by its own fetcher only, and a record that names
\* its chart has that file, saved in full
ChartsMatch ==
    /\ \A name \in Plotters :
          /\ ~Untouched(ChartOf(name)) => FetcherCalled(name) /\ name \notin side_effect
          /\ \A rec \in ChartRecords(name) :
                /\ rec.chart \in {"", ChartOf(name)}
                /\ rec.chart = "" <=> rec = FetcherPlaceholder(name)
                /\ rec.chart = ChartOf(name) => dist[ChartOf(name)][1] = "png"
    /\ \A name \in Fetchers \ Plotters :
          entry = name => \A f \in Files : Untouched(f)
    /\ \A rec \in ChartRecords("nsidc") :
          rec.chart = NSIDC_CHART =>
             \E fig \in {dist[NSIDC_CHART][2]} :
                /\ fig # <<>>
                /\ PyFloat(fig[Len(fig)][2][2]) = rec.latest.extent_mkm2
                /\ DateStr(fig[Len(fig)][1]) = rec.latest.date

\* C30 as stated: chart files never collide and always match the record; a
\* record names its chart only if that file was saved in the same call, and
\* a placeholder record means that the call saved no chart, so that the chart
\* file of an earlier run is as that run left it.
C30_PlaceholderLeavesChart ==
    /\ ChartsMatch
    /\ \A name \in Plotters :
          \A rec \in ChartRecords(name) : rec.chart = "" => Untouched(ChartOf(name))

\* C30, amended: chart files never collide and always match the record; a
\* record names its chart only if that file was saved in the same call; after
\* a placeholder record the chart file holds no chart of this call: it is as
\* the earlier run left it, or truncated when the saving failed part way.
C30_ChartsAndRecords ==
    /\ ChartsMatch
    /\ \A name \in Plotters :
          \A rec \in ChartRecords(name) :
             rec.chart = "" => (Untouched(ChartOf(name)) \/ dist[ChartOf(name)] = Truncated)
    /\ (fx.name = "co2" /\ fx.pc = "raised") =>
          (Untouched(CO2_CHART) \/ dist[CO2_CHART] = Truncated)

\* main holds a CO2 record that names its chart and the sea-ice placeholder;
\* the CO2 chart is saved, and the sea-ice chart of the earlier run is
\* truncated
C30_Witness ==
    /\ entry = "main"
    /\ mn.pc = "done"
    /\ mn.locals["co2"].chart = CO2_CHART
    /\ dist[CO2_CHART][1] = "png"
    /\ mn.locals["nsidc"] = NsidcPlaceholder
    /\ dist[NSIDC_CHART] = Truncated

-----------------------------------------------------------------------------
(* C22: two runs against the same upstream.                                *)

\* both runs are over
TwoRunsDone == call.fn = "pipeline twice" /\ call.pc = "returned"

-----------------------------------------------------------------------------
\* C24: after any sequence of clicks on the Simple and Details tab buttons,
\* exactly one tab button and exactly one section carry the class "active",
\* and the active section is the one the active button's data-tab names;
\* when the page has loaded that button is Simple.
PageOpen == page # NoPage

ActiveButtons == page.btn

ActiveSections == page.sec

OneActiveTab ==
    PageOpen =>
        /\ Cardinality(ActiveButtons) = 1
        /\ Cardinality(ActiveSections) = 1
        /\ \A btn \in ActiveButtons : ActiveSections = {secs[btn]}

C24_OneActiveTab ==
    /\ PageOpen => ActiveButtons = {"simple"}
    /\ []OneActiveTab

\* Details was clicked: its button and its section are the active ones
C24_Witness ==
    /\ PageOpen
    /\ ActiveButtons = {"details"}
    /\ ActiveSections = {"details"}

-----------------------------------------------------------------------------
\* C26: after any sequence of scenario changes and slider inputs the text of
\* #slr shows the slider's year and the label and the range of the checked
\* scenario; with Low checked the text differs from the text the page showed
\* at first; and a step that leaves the checked scenario alone leaves the
\* shown range alone, whatever it does to the year.
ShownYear == page.slr[2]

ShownRange == <<page.slr[4], page.slr[6]>>

ShownLabel == page.slr[8]

ProjectionShown ==
    PageOpen =>
        /\ ShownYear = IntText(page.yr)
        /\ ShownRange = SLR[page.checked]
        /\ ShownLabel = SCN_LABEL[page.checked]
        /\ page.checked = "low" => page.slr \notin {Markup.slr, Loaded.slr}

RangeFollowsScenario ==
    (PageOpen /\ page'.checked = page.checked) => ShownRange' = ShownRange

C26_ProjectionText == []ProjectionShown /\ [][RangeFollowsScenario]_vars

\* Low was checked and the slider moved to 2030
C26_Witness ==
    /\ PageOpen
    /\ page.intervals = <<>>
    /\ page.checked = "low"
    /\ page.yr = 2030
    /\ page.slr = SlrText(<<"2", "0", "3", "0">>, <<"5", ".", "9">>, <<"9", ".", "1">>, "Low")

-----------------------------------------------------------------------------
\* C25: once Animate Projections has been clicked, every interval it set is
\* eventually cleared; each interval writes the years to the slider one after
\* the other, the first being 2025 and each next one a year later; the slider
\* never leaves 2025..2050; and, the slider not being moved by hand after the
\* last click, a state comes where every interval is cleared and the slider
\* stands at 2050.
Intervals == IF PageOpen THEN page.intervals ELSE <<>>

Started(i) == i \in DOMAIN Intervals

Cleared(i) == Started(i) /\ Intervals[i].cleared

AllCleared == \A i \in DOMAIN Intervals : Intervals[i].cleared

SliderInRange == PageOpen => page.yr \in 2025..2050

YearsUpward ==
    PageOpen =>
        /\ \A i \in DOMAIN page'.intervals \ DOMAIN page.intervals :
              page'.intervals[i] = [currentYear |-> 2025, cleared |-> FALSE]
        /\ \A i \in DOMAIN page.intervals :
              page'.intervals[i] # page.intervals[i] =>
                  \/ /\ page'.intervals[i].cleared
                     /\ page.intervals[i].currentYear > 2050
                     /\ page'.yr = page.yr
                  \/ /\ ~page'.intervals[i].cleared
                     /\ page'.yr = page.intervals[i].currentYear
                     /\ page'.intervals[i].currentYear = page.intervals[i].currentYear + 1

C25_AnimationEnds ==
    /\ []SliderInRange
    /\ [][YearsUpward]_vars
    /\ \A i \in 1..MaxClicks : Started(i) ~> Cleared(i)
    /\ Started(1) ~> (AllCleared /\ (page.touched \/ page.yr = 2050))

\* the button was clicked more than once, the slider was not moved by hand
\* since, every interval is cleared and the slider stands at 2050
C25_Witness ==
    /\ Len(Intervals) > 1
    /\ AllCleared
    /\ ~page.touched
    /\ page.yr = 2050
=============================================================================
